---- MODULE Spec2Model ----
(***************************************************************************)
(* A model of the mbta-performance LAMP ingestion (chalicelib/lamp),       *)
(* its schedule enrichment and its backfill driver.                        *)
(*                                                                         *)
(* Tables (pandas DataFrames) are sequences of records, one record per     *)
(* row.  A nullable integer column holds <<>> for a null and <<v>> for the *)
(* value v; a nullable string column holds NA for a null.  Instants are    *)
(* seconds counted from local midnight of the run's service date, so the   *)
(* conversion of an epoch timestamp to US/Eastern keeps the instant.       *)
(***************************************************************************)
EXTENDS Integers, Sequences, FiniteSets, TLC

VARIABLES
    pc,            \* position of the running entry point
    service_date,  \* the service date the entry point runs for (a dateint)
    pq_df,         \* the frame fetched from LAMP (the caller's pq_df)
    lamp_df,       \* ingest_pq_file's pq_df after the rename and the filters
    events,        \* processed_daily_events
    result,        \* the value returned by the function called on its own
    error,         \* the exception logged or raised last, NoError when none
    stop_times,    \* the stop times of the schedule feed handed to a function
    disk,          \* historic: the files under outdir
    disk_before,   \* historic: the files under outdir when the last write began
    clock,         \* historic: the wall-clock time, in ticks
    args,          \* the arguments of the function called on its own
    futures,       \* make_parallel: the state of each submitted call, in submission order
    calls,         \* the calls made so far: of single_func per future (make_parallel), of to_disk (process_events)
    gtfs_feed,     \* gtfs: the GTFS feed of the service date
    queries,       \* gtfs: the stop-time queries issued so far, with their results
    requests,      \* historic download: the URLs fetched so far
    instant,       \* service_date: the datetime it is called with
    response,      \* status code of the last answer of the live feed, 0 if none
    todo,          \* backfill: the dates still to do, most recent first
    log,           \* backfill: the dates printed as "Failed to fetch"
    uploads,       \* stop_id -> "queued" | "running" | "ok" | "failed"
    bucket         \* the objects of S3_BUCKET, a set of [key, rows]

vars == <<pc, service_date, pq_df, lamp_df, events, result, stop_times, disk, disk_before, clock, args, futures, calls, gtfs_feed, queries, requests, instant, error, response, todo,
          log, uploads, bucket>>

(***************************************************************************)
(* Values                                                                  *)
(***************************************************************************)
NA == "<NA>"
Null == <<>>
Some(v) == <<v>>
IsNull(x) == x = Null
NoError == [type |-> "none"]
NoArgs == [bus |-> FALSE, nozip |-> FALSE]
NoFeed == [exists_remotely |-> FALSE, rows_per_trip |-> 0, built |-> FALSE, uploads |-> 0]
NoInstant == [date |-> <<>>, hour |-> 0, minute |-> 0, second |-> 0, tzinfo |-> "none"]

Range(s) == {s[i] : i \in DOMAIN s}

Min(S) == CHOOSE x \in S : \A y \in S : x <= y
Max(S) == CHOOSE x \in S : \A y \in S : x >= y

\* Variant: the frame is left in the order it has.
KeepOrder(df, by) == df

\* df.sort_values(by=[by]): ascending, rows with equal keys keep their order.
RECURSIVE SortValues(_, _)
SortValues(df, by) ==
    IF df = <<>> THEN <<>>
    ELSE LET m == Min({df[i][by] : i \in DOMAIN df})
         IN  SelectSeq(df, LAMBDA r : r[by] = m)
                 \o SortValues(SelectSeq(df, LAMBDA r : r[by] # m), by)

(***************************************************************************)
(* chalicelib/lamp/ingest.py: _process_arrival_departure_times             *)
(***************************************************************************)
\* The `by` columns of the merge_asof.
BY_COLUMNS == {"service_date", "route_id", "trip_id", "vehicle_id", "direction_id"}

SameBy(a, b) == \A c \in BY_COLUMNS : a[c] = b[c]

\* A row of arr_df: the record's arrival, event_time = stop_timestamp.
\* `row` is the position of the raw record the event comes from.
ArrEvent(r) ==
    [row |-> r.row, service_date |-> r.service_date, route_id |-> r.route_id,
     trip_id |-> r.trip_id, direction_id |-> r.direction_id,
     stop_id |-> r.stop_id, stop_sequence |-> r.stop_sequence,
     vehicle_id |-> r.vehicle_id, event_type |-> "ARR",
     event_time |-> r.stop_timestamp[1],
     travel_time_seconds |-> r.travel_time_seconds,
     scheduled_tt |-> r.scheduled_tt,
     scheduled_headway |-> r.scheduled_headway]

\* A row of dep_df after the rename: every column is the departure's own
\* (the _curr columns) but stop_id, which is stop_id_prev.
DepEvent(r, stop_id_prev) ==
    [row |-> r.row, service_date |-> r.service_date, route_id |-> r.route_id,
     trip_id |-> r.trip_id, direction_id |-> r.direction_id,
     stop_id |-> stop_id_prev, stop_sequence |-> r.stop_sequence,
     vehicle_id |-> r.vehicle_id, event_type |-> "DEP",
     event_time |-> r.move_timestamp[1],
     travel_time_seconds |-> r.travel_time_seconds,
     scheduled_tt |-> r.scheduled_tt,
     scheduled_headway |-> r.scheduled_headway]

\* Variant: allow_exact_matches=True, a departure may match its own record.
MergeAsofExact(d, arr_df) ==
    LET cand == {j \in DOMAIN arr_df :
                    SameBy(arr_df[j], d) /\ arr_df[j].stop_sequence <= d.stop_sequence}
    IN  IF cand = {} THEN NA ELSE arr_df[Max(cand)].stop_id

\* Variant: direction="forward".
MergeAsofForward(d, arr_df) ==
    LET cand == {j \in DOMAIN arr_df :
                    SameBy(arr_df[j], d) /\ arr_df[j].stop_sequence > d.stop_sequence}
    IN  IF cand = {} THEN NA ELSE arr_df[Min(cand)].stop_id

\* pd.merge_asof(dep_df, arr_df, on stop_sequence, by BY_COLUMNS,
\* direction="backward", allow_exact_matches=False) for one departure d:
\* the stop_id of the last row of arr_df (sorted by stop_sequence) in d's
\* group whose stop_sequence is below d's, NA when there is none.
MergeAsofBackward(d, arr_df) ==
    LET cand == {j \in DOMAIN arr_df :
                    SameBy(arr_df[j], d) /\ arr_df[j].stop_sequence < d.stop_sequence}
    IN  IF cand = {} THEN NA ELSE arr_df[Max(cand)].stop_id

_process_arrival_departure_times(df) ==
    LET sorted == SortValues(df, "stop_sequence")
        arr_rows == SelectSeq(sorted, LAMBDA r : ~IsNull(r.stop_timestamp))
        dep_rows == SelectSeq(sorted, LAMBDA r : ~IsNull(r.move_timestamp))
        arr_df == [i \in DOMAIN arr_rows |-> ArrEvent(arr_rows[i])]
        dep_df == [i \in DOMAIN dep_rows |->
                      DepEvent(dep_rows[i], MergeAsofBackward(dep_rows[i], arr_df))]
    IN  arr_df \o dep_df

(***************************************************************************)
(* chalicelib/date.py (not among the sources): format_dateint              *)
(***************************************************************************)
\* format_dateint(20240207) = "2024-02-07".  The zero-padded text is held as
\* <<year, month, day>>; DateTextLess is the order of the texts as strings.
format_dateint(dateint) ==
    <<dateint \div 10000, (dateint \div 100) % 100, dateint % 100>>

DateTextLess(a, b) ==
    \/ a[1] < b[1]
    \/ a[1] = b[1] /\ a[2] < b[2]
    \/ a[1] = b[1] /\ a[2] = b[2] /\ a[3] < b[3]

(***************************************************************************)
(* chalicelib/lamp/ingest.py: ingest_pq_file, the steps before enrichment  *)
(***************************************************************************)
TRIP_IDS_TO_DROP == {<<"N", "O", "N", "R", "E", "V", "-">>}

\* str.startswith(prefixes)
StartsWith(text, prefixes) ==
    \E p \in prefixes : Len(text) >= Len(p) /\ SubSeq(text, 1, Len(p)) = p

\* STOP_ID_NUMERIC_MAP
STOP_ID_NUMERIC_MAP ==
    [a \in {"Forest Hills-01", "Forest Hills-02", "Braintree-01", "Braintree-02",
            "Oak Grove-01", "Oak Grove-02", "Union Square-01", "Union Square-02"} |->
        CASE a \in {"Forest Hills-01", "Forest Hills-02"} -> "70001"
          [] a \in {"Braintree-01", "Braintree-02"} -> "70105"
          [] a \in {"Oak Grove-01", "Oak Grove-02"} -> "70036"
          [] OTHER -> "70504"]

\* Series.replace(STOP_ID_NUMERIC_MAP) on one stop_id.
ReplaceStopId(stop_id) ==
    IF stop_id \in DOMAIN STOP_ID_NUMERIC_MAP THEN STOP_ID_NUMERIC_MAP[stop_id]
    ELSE stop_id

CUTOFF_DATEINT == 20231130

\* pq_df["service_date"] = pq_df["service_date"].apply(format_dateint), done
\* on the caller's frame.
FormatServiceDates(df) ==
    [i \in DOMAIN df |-> [df[i] EXCEPT !.service_date = format_dateint(@)]]

\* Variant: the date test of the non-revenue filter is left out.
IsDroppedNonRevAnyDate(r) == StartsWith(r.trip_id, TRIP_IDS_TO_DROP)

\* The mask of the non-revenue filter, on a record whose service_date is
\* already formatted.
IsDroppedNonRev(r) ==
    /\ StartsWith(r.trip_id, TRIP_IDS_TO_DROP)
    /\ DateTextLess(r.service_date, format_dateint(CUTOFF_DATEINT))

\* The frame after the alias replacement and the non-revenue filter.
FilterNonRevenue(df) ==
    SelectSeq([i \in DOMAIN df |-> [df[i] EXCEPT !.stop_id = ReplaceStopId(@)]],
              LAMBDA r : ~IsDroppedNonRev(r))

\* Variant: the null stop_id filter keeps every event.
KeepAllStopIds(ev) == ev

\* processed_daily_events[processed_daily_events["stop_id"].notna()]
DropNullStopIds(ev) == SelectSeq(ev, LAMBDA e : e.stop_id # NA)

(***************************************************************************)
(* chalicelib/lamp/ingest.py: branch derivation and _recalculate_fields_... *)
(***************************************************************************)
RTE_DIR_STOP == {"route_id", "direction_id", "stop_id"}

SameOn(a, b, columns) == \A c \in columns : a[c] = b[c]

\* chalicelib/lamp/constants.py names these sets; the tests place 70085 on
\* the Ashmont branch and 70095 on the Braintree branch.
RED_LINE_ASHMONT_STOPS == {"70085"}
RED_LINE_BRAINTREE_STOPS == {"70095"}

\* Variant: a Red trip that is on no single branch is put on the Braintree
\* branch.
BranchForTripNoTrunk(df, trip) ==
    LET rows == SelectSeq(df, LAMBDA r : r.trip_id = trip)
        stop_ids == {rows[i].stop_id : i \in DOMAIN rows}
    IN  IF rows[1].route_id # "Red" THEN rows[1].route_id
        ELSE IF stop_ids \cap RED_LINE_ASHMONT_STOPS # {}
                  /\ stop_ids \cap RED_LINE_BRAINTREE_STOPS = {} THEN "Red-A"
        ELSE "Red-B"

\* get_branch_for_trip on the rows of `df` whose trip_id is trip.
BranchForTrip(df, trip) ==
    LET rows == SelectSeq(df, LAMBDA r : r.trip_id = trip)
        route_id == rows[1].route_id
        stop_ids == {rows[i].stop_id : i \in DOMAIN rows}
        has_ashmont == stop_ids \cap RED_LINE_ASHMONT_STOPS # {}
        has_braintree == stop_ids \cap RED_LINE_BRAINTREE_STOPS # {}
    IN  IF route_id = "Red"
        THEN IF has_ashmont /\ ~has_braintree THEN "Red-A"
             ELSE IF has_braintree /\ ~has_ashmont THEN "Red-B"
             ELSE route_id
        ELSE route_id

\* The frame with its branch_route_id column (groupby trip_id, apply, merge).
_derive_lamp_branch_route_id(df) ==
    [i \in DOMAIN df |->
        [c \in DOMAIN df[i] \cup {"branch_route_id"} |->
            IF c = "branch_route_id" THEN BranchForTrip(df, df[i].trip_id)
            ELSE df[i][c]]]

_derive_gtfs_branch_route_id(gtfs_stops) ==
    [i \in DOMAIN gtfs_stops |->
        [c \in DOMAIN gtfs_stops[i] \cup {"branch_route_id"} |->
            IF c = "branch_route_id" THEN BranchForTrip(gtfs_stops, gtfs_stops[i].trip_id)
            ELSE gtfs_stops[i][c]]]

\* gtfs_stops with scheduled_tt = arrival_time - the trip's first arrival_time.
WithScheduledTt(gtfs_stops) ==
    [i \in DOMAIN gtfs_stops |->
        [c \in DOMAIN gtfs_stops[i] \cup {"scheduled_tt"} |->
            IF c = "scheduled_tt"
            THEN gtfs_stops[i].arrival_time
                   - Min({gtfs_stops[j].arrival_time :
                            j \in {k \in DOMAIN gtfs_stops :
                                      gtfs_stops[k].trip_id = gtfs_stops[i].trip_id}})
            ELSE gtfs_stops[i][c]]]

MATCH_COLUMNS == RTE_DIR_STOP \cup {"branch_route_id"}

\* pq_df.loc[pq_df.groupby("trip_id").event_time.idxmin()] for one trip: the
\* first row holding the trip's least event_time.
RouteStart(df, trip) ==
    LET rows == {i \in DOMAIN df : df[i].trip_id = trip}
        first == Min({df[i].event_time : i \in rows})
    IN  df[Min({i \in rows : df[i].event_time = first})]

\* Variant: direction="backward", the last scheduled stop time at or before
\* the start (NA when there is none).
NearestScheduledTripBackward(start, sched) ==
    LET group == {j \in DOMAIN sched : SameOn(sched[j], start, MATCH_COLUMNS)}
        back == {j \in group : sched[j].arrival_time <= start.event_time}
    IN  IF back = {} THEN NA ELSE sched[Max(back)].trip_id

\* pd.merge_asof(route_starts, gtfs_stops[...].drop_duplicates(),
\* on="arrival_time", direction="nearest", by=match_columns) for one start:
\* the scheduled trip_id, NA when no scheduled stop time shares the key.
\* `sched` is sorted by arrival_time; at equal distance the earlier one wins.
NearestScheduledTrip(start, sched) ==
    LET group == {j \in DOMAIN sched : SameOn(sched[j], start, MATCH_COLUMNS)}
        back == {j \in group : sched[j].arrival_time <= start.event_time}
        fwd == {j \in group : sched[j].arrival_time >= start.event_time}
    IN  IF group = {} THEN NA
        ELSE IF back = {} THEN sched[Min(fwd)].trip_id
        ELSE IF fwd = {} THEN sched[Max(back)].trip_id
        ELSE IF start.event_time - sched[Max(back)].arrival_time
                  <= sched[Min(fwd)].arrival_time - start.event_time
             THEN sched[Max(back)].trip_id
             ELSE sched[Min(fwd)].trip_id

RECURSIVE Concat(_)
\* pd.concat of a sequence of frames.
Concat(frames) ==
    IF frames = <<>> THEN <<>> ELSE Head(frames) \o Concat(Tail(frames))

\* The ascending sort of the values at the positions `idx` of the sequence
\* of numbers `vals`.
RECURSIVE SortedValues(_, _)
SortedValues(vals, idx) ==
    IF idx = {} THEN <<>>
    ELSE LET m == Min({vals[i] : i \in idx})
             j == CHOOSE i \in idx : vals[i] = m
         IN  <<m>> \o SortedValues(vals, idx \ {j})

\* Twice the median of a non-empty sequence of sorted numbers (the median of
\* an even number of values is the mean of the middle two).
TwiceMedian(sorted) ==
    LET n == Len(sorted)
    IN  IF n % 2 = 1 THEN 2 * sorted[(n + 1) \div 2]
        ELSE sorted[n \div 2] + sorted[(n \div 2) + 1]

BUCKET_SECONDS == 1800

\* Variant: the median over the whole day, without the time_bucket.
FallbackTtWholeDay(e, sched) ==
    LET group == {j \in DOMAIN sched : SameOn(sched[j], e, RTE_DIR_STOP)}
        tts == [j \in DOMAIN sched |-> sched[j].scheduled_tt]
    IN  IF group = {} THEN Null ELSE Some(TwiceMedian(SortedValues(tts, group)))

\* bucketed_median_tt.get((route_id, direction_id, stop_id, time_bucket)) for
\* event e, in half seconds; Null when the schedule has no such group.
FallbackTt(e, sched) ==
    LET group == {j \in DOMAIN sched :
                    /\ SameOn(sched[j], e, RTE_DIR_STOP)
                    /\ sched[j].arrival_time \div BUCKET_SECONDS
                          = e.event_time \div BUCKET_SECONDS}
        tts == [j \in DOMAIN sched |-> sched[j].scheduled_tt]
    IN  IF group = {} THEN Null ELSE Some(TwiceMedian(SortedValues(tts, group)))

\* The rows event e becomes in the left merge on (scheduled_trip_id, stop_id)
\* and the fallback: one row per stop time of the matched scheduled trip at
\* e's stop, or one row with the fallback value.  scheduled_tt is held in
\* half seconds.
EnrichedRows(e, scheduled_trip_id, sched) ==
    LET hits == SelectSeq(sched, LAMBDA g :
                    g.trip_id = scheduled_trip_id /\ g.stop_id = e.stop_id)
    IN  IF scheduled_trip_id = NA \/ hits = <<>>
        THEN <<[e EXCEPT !.scheduled_tt = FallbackTt(e, sched)]>>
        ELSE [k \in DOMAIN hits |-> [e EXCEPT !.scheduled_tt = Some(2 * hits[k].scheduled_tt)]]

\* _recalculate_fields_from_gtfs once fetch_stop_times_from_gtfs has returned
\* gtfs_stops.  Event times are already seconds since the service date's
\* local midnight.
_recalculate_fields_from_gtfs(df, gtfs_stops) ==
    LET sched == WithScheduledTt(
                     _derive_gtfs_branch_route_id(SortValues(gtfs_stops, "arrival_time")))
        lamp == _derive_lamp_branch_route_id(df)
        scheduled_trip(trip) == NearestScheduledTrip(RouteStart(lamp, trip), sched)
    IN  Concat([i \in DOMAIN df |->
                  EnrichedRows(df[i], scheduled_trip(df[i].trip_id), sched)])

(***************************************************************************)
(* chalicelib/lamp/ingest.py: _average_scheduled_headways                  *)
(***************************************************************************)
WINDOW_HOURS == 48

\* pd.date_range(start_time, end_time, freq="30min") holds both ends.
BucketCount == (WINDOW_HOURS * 3600) \div BUCKET_SECONDS + 1

\* Service dates on which US/Eastern leaves (2023-11-05) and enters
\* (2024-03-10) daylight saving time at 02:00.
FALL_BACK_DATES == {20231105}
SPRING_FORWARD_DATES == {20240310}

\* tz_localize(EASTERN_TIME, ambiguous=True, nonexistent="shift_forward") of
\* the wall clock `naive` seconds after the service date's midnight, as the
\* number of seconds elapsed since that midnight.
Localize(naive, sd) ==
    IF sd \in FALL_BACK_DATES
    THEN IF naive < 7200 THEN naive ELSE naive + 3600
    ELSE IF sd \in SPRING_FORWARD_DATES
    THEN IF naive < 7200 THEN naive
         ELSE IF naive < 10800 THEN 7200
         ELSE naive - 3600
    ELSE naive

\* Variant: the window ends after 24 hours.
InBucketOneDay(e, k, sd) ==
    /\ k < 48
    /\ e.event_time >= Localize(k * BUCKET_SECONDS, sd)
    /\ e.event_time < Localize((k + 1) * BUCKET_SECONDS, sd)

\* The filter of bucket k: bucket_start <= event_time < bucket_end.
InBucket(e, k, sd) ==
    /\ e.event_time >= Localize(k * BUCKET_SECONDS, sd)
    /\ e.event_time < Localize((k + 1) * BUCKET_SECONDS, sd)

RECURSIVE SumAt(_, _)
SumAt(vals, idx) ==
    IF idx = {} THEN 0
    ELSE LET j == CHOOSE i \in idx : TRUE IN vals[j] + SumAt(vals, idx \ {j})

\* round(-1) of total / count: the nearest multiple of 10, the even one of
\* the two when total / count lies midway.
RoundToTens(total, count) ==
    LET step == 10 * count
        low == total \div step
        rest == total - low * step
    IN  IF 2 * rest < step THEN 10 * low
        ELSE IF 2 * rest > step THEN 10 * (low + 1)
        ELSE IF low % 2 = 0 THEN 10 * low ELSE 10 * (low + 1)

\* groupby drops the rows with a null key (route_id and stop_id are the
\* nullable ones).
HasNullKey(e) == e.route_id = NA \/ e.stop_id = NA

\* Variant: a group's mean is null as soon as one of its headways is.
GroupHeadwayStrict(rows, e) ==
    LET group == {j \in DOMAIN rows : SameOn(rows[j], e, RTE_DIR_STOP)}
        known == {j \in group : ~IsNull(rows[j].scheduled_headway)}
        vals == [j \in DOMAIN rows |->
                    IF j \in known THEN rows[j].scheduled_headway[1] ELSE 0]
    IN  IF known # group \/ HasNullKey(e) THEN Null
        ELSE Some(RoundToTens(SumAt(vals, known), Cardinality(known)))

\* The value event e gets from the left merge with the bucket's
\* groupby(RTE_DIR_STOP)["scheduled_headway"].mean().round(-1): the mean of
\* the non-null headways of e's group, null when the group has none.
GroupHeadway(rows, e) ==
    LET group == {j \in DOMAIN rows : SameOn(rows[j], e, RTE_DIR_STOP)}
        known == {j \in group : ~IsNull(rows[j].scheduled_headway)}
        vals == [j \in DOMAIN rows |->
                    IF j \in known THEN rows[j].scheduled_headway[1] ELSE 0]
    IN  IF known = {} \/ HasNullKey(e) THEN Null
        ELSE Some(RoundToTens(SumAt(vals, known), Cardinality(known)))

\* enriched_trip of bucket k.
EnrichedBucket(df, k, sd) ==
    LET rows == SelectSeq(df, LAMBDA e : InBucket(e, k, sd))
    IN  [i \in DOMAIN rows |->
            [rows[i] EXCEPT !.scheduled_headway = GroupHeadway(rows, rows[i])]]

_average_scheduled_headways(df, sd) ==
    Concat([b \in 1..BucketCount |-> EnrichedBucket(df, b - 1, sd)])

(***************************************************************************)
(* Input tables.  A table is drawn as a sequence of row codes in           *)
(* non-decreasing or non-increasing order; each code decodes to a record.  *)
(***************************************************************************)
RECURSIVE CodeSeqs(_, _, _)
\* The non-decreasing sequences of n codes out of lo..hi.
CodeSeqs(n, lo, hi) ==
    IF n = 0 THEN {<<>>}
    ELSE UNION {{<<c>> \o s : s \in CodeSeqs(n - 1, c, hi)} : c \in lo..hi}

Reverse(s) == [i \in DOMAIN s |-> s[Len(s) + 1 - i]]

\* Raw timestamps of the record at stop_sequence seq: the vehicle leaves the
\* previous stop 120 s before it reaches this one.
StopTime(seq) == 28800 + 600 * seq
MoveTime(seq) == StopTime(seq) - 120

RawRecord(sd, trip, vehicle, seq, stop, ts, hw) ==
    [row |-> 0, service_date |-> sd, route_id |-> "Orange", trip_id |-> trip,
     stop_id |-> stop, direction_id |-> 0, stop_sequence |-> seq,
     vehicle_id |-> vehicle,
     move_timestamp |-> IF ts \in {"dep", "both"} THEN Some(MoveTime(seq)) ELSE Null,
     stop_timestamp |-> IF ts \in {"arr", "both"} THEN Some(StopTime(seq)) ELSE Null,
     travel_time_seconds |-> Some(60 + seq),
     scheduled_tt |-> Some(55),
     scheduled_headway |-> hw]

\* The table of the records `recs`, each carrying its position.
AsTable(recs) == [i \in DOMAIN recs |-> [recs[i] EXCEPT !.row = i]]

\* Which of stop_timestamp and move_timestamp a record holds.
Timestamps == <<"arr", "dep", "both">>

REGULAR_TRIP == <<"6", "1", "2", "3">>
NONREV_TRIP == <<"N", "O", "N", "R", "E", "V", "-", "1">>

(***************************************************************************)
(* Spec: ingest_lamp_data for one service date                             *)
(***************************************************************************)
MaxLampRows == 2
RunDates == {20231129, 20231130, 20240207}
LampStops == <<NA, "70003", "Forest Hills-01">>
StatusCodes == {403, 404}

\* Codes 0..35: trip (scheduled or non-revenue), stop_sequence 1..2, stop_id
\* and timestamps.  The non-revenue trip has no scheduled headway.
LampRecord(c, sd) ==
    LET nonrev == c % 2 = 1
        seq == ((c \div 2) % 2) + 1
    IN  RawRecord(sd, IF nonrev THEN NONREV_TRIP ELSE REGULAR_TRIP,
                  IF nonrev THEN "O-002" ELSE "O-001", seq,
                  LampStops[((c \div 4) % 3) + 1], Timestamps[(c \div 12) + 1],
                  IF nonrev THEN Null ELSE Some(275 + 10 * seq))

LampTable(codes, sd) == AsTable([i \in DOMAIN codes |-> LampRecord(codes[i], sd)])

\* The stop times the schedule feed holds: the scheduled trip calls at 70001
\* and 70003; in the second feed it calls at 70003 twice.
StopTimeRow(trip, stop, at) ==
    [trip_id |-> trip, stop_id |-> stop, arrival_time |-> at,
     route_id |-> "Orange", direction_id |-> 0]

Feeds ==
    {<<StopTimeRow(REGULAR_TRIP, "70001", 29300), StopTimeRow(REGULAR_TRIP, "70003", 30100)>>,
     <<StopTimeRow(REGULAR_TRIP, "70003", 29500), StopTimeRow(REGULAR_TRIP, "70001", 30000),
       StopTimeRow(REGULAR_TRIP, "70003", 30700)>>}

TripIds(df) == {df[i].trip_id : i \in DOMAIN df}

\* The stop times fetch_stop_times_from_gtfs returns: those of the trips
\* asked for.
StopTimesOf(feed, trip_ids) == SelectSeq(feed, LAMBDA g : g.trip_id \in trip_ids)

RECURSIVE Digits(_)
\* str(n) for n >= 0: the decimal digits, most significant first, without
\* padding.
Digits(n) == IF n < 10 THEN <<n>> ELSE Append(Digits(n \div 10), n % 10)

\* Variant: month and day are written with two digits.
S3KeyPadded(stop_id, sd) ==
    LET two(n) == IF n < 10 THEN <<0, n>> ELSE Digits(n)
    IN  [stop_id |-> stop_id, Year |-> Digits(sd \div 10000),
         Month |-> two((sd \div 100) % 100), Day |-> two(sd % 100)]

\* S3_KEY_TEMPLATE.format(stop_id=..., YYYY=year, _M=month, _D=day): the
\* fields of Events-lamp/daily-data/{stop_id}/Year={YYYY}/Month={_M}/Day={_D}/
\* events.csv, each number as the digits format() writes.
S3Key(stop_id, sd) ==
    [stop_id |-> stop_id, Year |-> Digits(sd \div 10000),
     Month |-> Digits((sd \div 100) % 100), Day |-> Digits(sd % 100)]

\* s3.upload_df_as_csv(bucket, key, df) on the store: the object of that key
\* is replaced wholly; `puts` counts the writes the key has had.
PutObject(store, key, rows) ==
    LET old == {o \in store : o.key = key}
        puts == IF old = {} THEN 0 ELSE (CHOOSE o \in old : TRUE).puts
    IN  (store \ old) \cup {[key |-> key, rows |-> rows, puts |-> puts + 1]}

\* processed_daily_events.groupby("stop_id"): the rows of one stop.
StopEvents(df, stop_id) == SelectSeq(df, LAMBDA e : e.stop_id = stop_id)

StopIds(df) == {df[i].stop_id : i \in DOMAIN df} \ {NA}

THREAD_COUNT == 5

Init ==
    /\ pc = "fetch"
    /\ service_date \in RunDates
    /\ pq_df = <<>>
    /\ lamp_df = <<>>
    /\ events = <<>>
    /\ result = <<>>
    /\ stop_times = <<>>
    /\ disk = {}
    /\ disk_before = {}
    /\ clock = 0
    /\ args = NoArgs
    /\ futures = <<>>
    /\ calls = <<>>
    /\ gtfs_feed = NoFeed
    /\ queries = <<>>
    /\ requests = <<>>
    /\ instant = NoInstant
    /\ error = NoError
    /\ response = 0
    /\ todo = <<>>
    /\ log = {}
    /\ uploads = <<>>
    /\ bucket = {}

\* fetch_pq_file_from_remote: status 200, the parquet file is parsed.
FetchOk ==
    /\ pc = "fetch"
    /\ \E n \in 0..MaxLampRows : \E codes \in CodeSeqs(n, 0, 35) :
           pq_df' = LampTable(codes, service_date)
    /\ response' = 200
    /\ pc' = "ingest_filter"
    /\ UNCHANGED <<service_date, lamp_df, events, result, stop_times, disk, disk_before, clock, args, futures, calls, gtfs_feed, queries, requests, instant, todo, log, error, uploads, bucket>>

\* Variant: ingest_lamp_data re-raises the ValueError of a status other than
\* 200 like any other exception.
FetchStatusErrorReraised ==
    /\ pc = "fetch"
    /\ \E status \in StatusCodes :
           /\ response' = status
           /\ error' = [type |-> "ValueError", status_code |-> status]
    /\ pc' = "raised"
    /\ UNCHANGED <<service_date, pq_df, lamp_df, events, result, stop_times, disk, disk_before, clock, args, futures, calls, gtfs_feed, queries, requests, instant, todo, log, uploads, bucket>>

\* fetch_pq_file_from_remote raises ValueError on a status other than 200;
\* ingest_lamp_data logs it and returns.
FetchStatusError ==
    /\ pc = "fetch"
    /\ \E status \in StatusCodes :
           /\ response' = status
           /\ error' = [type |-> "ValueError", status_code |-> status]
    /\ pc' = "skipped"
    /\ UNCHANGED <<service_date, pq_df, lamp_df, events, result, stop_times, disk, disk_before, clock, args, futures, calls, gtfs_feed, queries, requests, instant, todo, log, uploads, bucket>>

\* requests.get or read_parquet raises something else; ingest_lamp_data
\* re-raises it.
FetchOtherError ==
    /\ pc = "fetch"
    /\ error' = [type |-> "ConnectionError"]
    /\ pc' = "raised"
    /\ UNCHANGED <<service_date, pq_df, lamp_df, events, result, stop_times, disk, disk_before, clock, args, futures, calls, gtfs_feed, queries, requests, instant, response, todo, log, uploads, bucket>>

\* ingest_pq_file, lines 355-369: the service_date column is formatted in
\* the caller's frame, aliases are replaced, non-revenue records dropped.
IngestFilter ==
    /\ pc = "ingest_filter"
    /\ pq_df' = FormatServiceDates(pq_df)
    /\ lamp_df' = FilterNonRevenue(FormatServiceDates(pq_df))
    /\ pc' = "ingest_explode"
    /\ UNCHANGED <<service_date, events, result, stop_times, disk, disk_before, clock, args, futures, calls, gtfs_feed, queries, requests, instant, response, todo, log, error, uploads, bucket>>

IngestArrivalDeparture ==
    /\ pc = "ingest_explode"
    /\ events' = _process_arrival_departure_times(lamp_df)
    /\ pc' = "ingest_dropna"
    /\ UNCHANGED <<service_date, pq_df, lamp_df, result, stop_times, disk, disk_before, clock, args, futures, calls, gtfs_feed, queries, requests, instant, response, todo, log, error, uploads, bucket>>

IngestDropNullStopIds ==
    /\ pc = "ingest_dropna"
    /\ events' = DropNullStopIds(events)
    /\ pc' = "ingest_gtfs"
    /\ UNCHANGED <<service_date, pq_df, lamp_df, result, stop_times, disk, disk_before, clock, args, futures, calls, gtfs_feed, queries, requests, instant, response, todo, log, error, uploads, bucket>>

\* fetch_stop_times_from_gtfs returns stop times and the events are enriched.
IngestRecalculate ==
    /\ pc = "ingest_gtfs"
    /\ \E feed \in Feeds :
           /\ StopTimesOf(feed, TripIds(events)) # <<>>
           /\ events' = _recalculate_fields_from_gtfs(
                             events, StopTimesOf(feed, TripIds(events)))
    /\ pc' = "ingest_headways"
    /\ UNCHANGED <<service_date, pq_df, lamp_df, result, stop_times, disk, disk_before, clock, args, futures, calls, gtfs_feed, queries, requests, instant, response, todo, log, error, uploads, bucket>>

\* fetch_stop_times_from_gtfs raises: the feed cannot be downloaded, built or
\* uploaded, or no trip was asked for (pd.concat of no frames).  Nothing in
\* _recalculate_fields_from_gtfs or ingest_pq_file catches it and
\* ingest_lamp_data re-raises it.
IngestGtfsFetchFails ==
    /\ pc = "ingest_gtfs"
    /\ \/ error' = [type |-> "GtfsFeedError"]
       \/ events = <<>> /\ error' = [type |-> "ValueError", what |-> "No objects to concatenate"]
    /\ pc' = "raised"
    /\ UNCHANGED <<service_date, pq_df, lamp_df, events, result, stop_times, disk, disk_before, clock, args, futures, calls, gtfs_feed, queries, requests, instant, response, todo, log, uploads, bucket>>

\* The feed holds no stop time of the trips asked for: the enrichment of an
\* empty schedule either fails in pandas or leaves every event unmatched.
IngestEmptySchedule ==
    /\ pc = "ingest_gtfs"
    /\ events # <<>>
    /\ \E feed \in Feeds : StopTimesOf(feed, TripIds(events)) = <<>>
    /\ \/ /\ events' = [i \in DOMAIN events |-> [events[i] EXCEPT !.scheduled_tt = Null]]
          /\ pc' = "ingest_headways"
          /\ UNCHANGED error
       \/ /\ error' = [type |-> "PandasError"]
          /\ pc' = "raised"
          /\ UNCHANGED events
    /\ UNCHANGED <<service_date, pq_df, lamp_df, result, stop_times, disk, disk_before, clock, args, futures, calls, gtfs_feed, queries, requests, instant, response, todo, log, uploads, bucket>>

IngestAverageHeadways ==
    /\ pc = "ingest_headways"
    /\ events' = _average_scheduled_headways(events, service_date)
    /\ pc' = "ingest_sort"
    /\ UNCHANGED <<service_date, pq_df, lamp_df, result, stop_times, disk, disk_before, clock, args, futures, calls, gtfs_feed, queries, requests, instant, response, todo, log, error, uploads, bucket>>

\* ingest_pq_file returns the events sorted by event_time.
IngestSort ==
    /\ pc = "ingest_sort"
    /\ events' = SortValues(events, "event_time")
    /\ pc' = "dispatch"
    /\ UNCHANGED <<service_date, pq_df, lamp_df, result, stop_times, disk, disk_before, clock, args, futures, calls, gtfs_feed, queries, requests, instant, response, todo, log, error, uploads, bucket>>

\* _parallel_upload(stop_event_groups, service_date): one upload_to_s3 call
\* per stop is submitted to the pool.
DispatchUploads ==
    /\ pc = "dispatch"
    /\ uploads' = [s \in StopIds(events) |-> "queued"]
    /\ pc' = "uploading"
    /\ UNCHANGED <<service_date, pq_df, lamp_df, events, result, stop_times, disk, disk_before, clock, args, futures, calls, gtfs_feed, queries, requests, instant, response, todo, log, error, bucket>>

Running == {s \in DOMAIN uploads : uploads[s] = "running"}

\* A pool thread takes a queued upload_to_s3 call.
StartUpload(s) ==
    /\ pc = "uploading"
    /\ uploads[s] = "queued"
    /\ Cardinality(Running) < THREAD_COUNT
    /\ uploads' = [uploads EXCEPT ![s] = "running"]
    /\ UNCHANGED <<pc, service_date, pq_df, lamp_df, events, result, stop_times, disk, disk_before, clock, args, futures, calls, gtfs_feed, queries, requests, instant, response, todo, log, error, bucket>>

\* s3.upload_df_as_csv writes the stop's object, replacing one of that key.
UploadOk(s) ==
    /\ pc = "uploading"
    /\ uploads[s] = "running"
    /\ bucket' = PutObject(bucket, S3Key(s, service_date), StopEvents(events, s))
    /\ uploads' = [uploads EXCEPT ![s] = "ok"]
    /\ UNCHANGED <<pc, service_date, pq_df, lamp_df, events, result, stop_times, disk, disk_before, clock, args, futures, calls, gtfs_feed, queries, requests, instant, response, todo, log, error>>

\* s3.upload_df_as_csv raises; upload_to_s3 logs and re-raises.
UploadFails(s) ==
    /\ pc = "uploading"
    /\ uploads[s] = "running"
    /\ uploads' = [uploads EXCEPT ![s] = "failed"]
    /\ UNCHANGED <<pc, service_date, pq_df, lamp_df, events, result, stop_times, disk, disk_before, clock, args, futures, calls, gtfs_feed, queries, requests, instant, response, todo, log, error, bucket>>

\* Variant: parallel_func waits for the calls and never reads their results.
JoinUploadsUnread ==
    /\ pc = "uploading"
    /\ \A s \in DOMAIN uploads : uploads[s] \in {"ok", "failed"}
    /\ pc' = "done"
    /\ UNCHANGED <<service_date, pq_df, lamp_df, events, result, stop_times, disk, disk_before, clock, args, futures, calls, gtfs_feed, queries, requests, instant, response, todo, log, error,
                   uploads, bucket>>

\* parallel_func leaves the executor once every call has ended, then reads
\* each future's result: the first failed one raises, and ingest_lamp_data
\* re-raises.
JoinUploads ==
    /\ pc = "uploading"
    /\ \A s \in DOMAIN uploads : uploads[s] \in {"ok", "failed"}
    /\ IF \E s \in DOMAIN uploads : uploads[s] = "failed"
       THEN pc' = "raised" /\ error' = [type |-> "UploadError"]
       ELSE pc' = "done" /\ UNCHANGED error
    /\ UNCHANGED <<service_date, pq_df, lamp_df, events, result, stop_times, disk, disk_before, clock, args, futures, calls, gtfs_feed, queries, requests, instant, response, todo, log, uploads, bucket>>

Next ==
    \/ FetchOk
    \/ FetchStatusError
    \/ FetchOtherError
    \/ IngestFilter
    \/ IngestArrivalDeparture
    \/ IngestDropNullStopIds
    \/ IngestRecalculate
    \/ IngestGtfsFetchFails
    \/ IngestEmptySchedule
    \/ IngestAverageHeadways
    \/ IngestSort
    \/ DispatchUploads
    \/ \E s \in DOMAIN uploads : StartUpload(s)
    \/ \E s \in DOMAIN uploads : UploadOk(s)
    \/ \E s \in DOMAIN uploads : UploadFails(s)
    \/ JoinUploads

Spec == Init /\ [][Next]_vars

(***************************************************************************)
(* SpecArrDep: _process_arrival_departure_times on its own                 *)
(***************************************************************************)
MaxRows == 3
ArrDepStops == <<NA, "70001", "70003">>

\* Codes 0..26: the trip on vehicle O-001, every stop_sequence, stop_id and
\* timestamp combination.  Codes 27..32: the same trip_id on vehicle O-002.
ArrDepRecord(c) ==
    IF c < 27
    THEN RawRecord(20240207, REGULAR_TRIP, "O-001", (c % 3) + 1,
                   ArrDepStops[((c \div 3) % 3) + 1], Timestamps[(c \div 9) + 1],
                   Some(290))
    ELSE RawRecord(20240207, REGULAR_TRIP, "O-002", ((c - 27) % 3) + 1,
                   ArrDepStops[((c - 27) \div 3) + 2], "both", Some(290))

ArrDepTable(codes, reversed) ==
    LET recs == [i \in DOMAIN codes |-> ArrDepRecord(codes[i])]
    IN  AsTable(IF reversed THEN Reverse(recs) ELSE recs)

InitArrDep ==
    /\ pc = "arrdep_call"
    /\ service_date = 20240207
    /\ \E n \in 0..MaxRows : \E codes \in CodeSeqs(n, 0, 32) : \E reversed \in BOOLEAN :
           pq_df = ArrDepTable(codes, reversed)
    /\ lamp_df = <<>>
    /\ events = <<>>
    /\ result = <<>>
    /\ stop_times = <<>>
    /\ disk = {}
    /\ disk_before = {}
    /\ clock = 0
    /\ args = NoArgs
    /\ futures = <<>>
    /\ calls = <<>>
    /\ gtfs_feed = NoFeed
    /\ queries = <<>>
    /\ requests = <<>>
    /\ instant = NoInstant
    /\ error = NoError
    /\ response = 0
    /\ todo = <<>>
    /\ log = {}
    /\ uploads = <<>>
    /\ bucket = {}

ProcessArrivalDepartureTimes ==
    /\ pc = "arrdep_call"
    /\ events' = _process_arrival_departure_times(pq_df)
    /\ pc' = "arrdep_done"
    /\ UNCHANGED <<service_date, pq_df, lamp_df, result, stop_times, disk, disk_before, clock, args, futures, calls, gtfs_feed, queries, requests, instant, response, todo, log, error, uploads, bucket>>

NextArrDep == ProcessArrivalDepartureTimes

SpecArrDep == InitArrDep /\ [][NextArrDep]_vars

(***************************************************************************)
(* SpecDate: service_date(ts) of chalicelib/date.py                        *)
(***************************************************************************)
IsLeapYear(y) == (y % 4 = 0 /\ y % 100 # 0) \/ y % 400 = 0

DaysInMonth(y, m) ==
    IF m = 2 THEN (IF IsLeapYear(y) THEN 29 ELSE 28)
    ELSE IF m \in {4, 6, 9, 11} THEN 30 ELSE 31

\* date - timedelta(days=1)
PreviousDate(d) ==
    IF d[3] > 1 THEN <<d[1], d[2], d[3] - 1>>
    ELSE IF d[2] > 1 THEN <<d[1], d[2] - 1, DaysInMonth(d[1], d[2] - 1)>>
    ELSE <<d[1] - 1, 12, 31>>

\* Variant: the service day turns over after 03:00, not at it.
service_date_after_three(ts) ==
    IF ts.hour > 3 /\ ts.hour <= 23 THEN ts.date ELSE PreviousDate(ts.date)

\* service_date(ts): the timezone is replaced by the operator's, which
\* leaves the wall-clock fields as they are; from hour 3 on the date is the
\* instant's own, before it the date one day earlier.
service_date_of(ts) ==
    IF ts.hour >= 3 /\ ts.hour <= 23 THEN ts.date ELSE PreviousDate(ts.date)

\* The calendar dates the instants are drawn from: the days around the
\* 2023-11-05 and 2024-03-10 clock changes, a plain day, and the first days
\* of a month, of a year and of March in a leap year.
InstantDates ==
    {<<2023, 11, 5>>, <<2023, 11, 6>>, <<2023, 12, 15>>, <<2023, 12, 16>>, <<2023, 12, 1>>,
     <<2024, 1, 1>>, <<2024, 3, 1>>, <<2024, 3, 10>>}
InstantHours == 0..23
InstantMinutes == {0, 30, 59}
InstantSeconds == {0, 59}
TimeZones == {"naive", "US/Eastern"}

InitDate ==
    /\ pc = "date_call"
    /\ stop_times = <<>>
    /\ disk = {}
    /\ disk_before = {}
    /\ clock = 0
    /\ args = NoArgs
    /\ futures = <<>>
    /\ calls = <<>>
    /\ gtfs_feed = NoFeed
    /\ queries = <<>>
    /\ requests = <<>>
    /\ instant \in [date : InstantDates, hour : InstantHours, minute : InstantMinutes,
                    second : InstantSeconds, tzinfo : TimeZones]
    /\ service_date = 0
    /\ pq_df = <<>>
    /\ lamp_df = <<>>
    /\ events = <<>>
    /\ result = <<>>
    /\ error = NoError
    /\ response = 0
    /\ todo = <<>>
    /\ log = {}
    /\ uploads = <<>>
    /\ bucket = {}

ServiceDate ==
    /\ pc = "date_call"
    /\ result' = service_date_of(instant)
    /\ pc' = "date_done"
    /\ UNCHANGED <<service_date, pq_df, lamp_df, events, stop_times, disk, disk_before, clock, args, futures, calls, gtfs_feed, queries, requests, instant, error, response, todo, log,
                   uploads, bucket>>

NextDate == ServiceDate

SpecDate == InitDate /\ [][NextDate]_vars

(***************************************************************************)
(* SpecHeadway: _average_scheduled_headways on its own                     *)
(***************************************************************************)
MaxHeadwayRows == 2

\* A plain service date, the one on which daylight saving time ends and the
\* one on which it begins.
HeadwayDates == {20240207, 20231105, 20240310}

\* Event times, in seconds since the service date's midnight: the second
\* before it, both sides of a bucket boundary, 02:00, and both sides of the
\* end of the last bucket of a day without a clock change.
HeadwayTimes == <<0 - 1, 0, 1799, 1800, 7200, 174599, 174600>>
HeadwayStops == <<"70001", "70003">>
Headways == <<Null, Some(290), Some(300)>>

\* Code c in 0..41 decodes to an event.
HeadwayEvent(c, sd) ==
    [ArrEvent(RawRecord(format_dateint(sd), REGULAR_TRIP, "O-001", 1,
                        HeadwayStops[(c % 2) + 1], "arr", Headways[((c \div 2) % 3) + 1]))
        EXCEPT !.event_time = HeadwayTimes[(c \div 6) + 1]]

HeadwayTable(codes, sd) == AsTable([i \in DOMAIN codes |-> HeadwayEvent(codes[i], sd)])

InitHeadway ==
    /\ pc = "headway_call"
    /\ service_date \in HeadwayDates
    /\ \E n \in 0..MaxHeadwayRows : \E codes \in CodeSeqs(n, 0, 41) :
           events = HeadwayTable(codes, service_date)
    /\ pq_df = <<>>
    /\ lamp_df = <<>>
    /\ result = <<>>
    /\ stop_times = <<>>
    /\ disk = {}
    /\ disk_before = {}
    /\ clock = 0
    /\ args = NoArgs
    /\ futures = <<>>
    /\ calls = <<>>
    /\ gtfs_feed = NoFeed
    /\ queries = <<>>
    /\ requests = <<>>
    /\ instant = NoInstant
    /\ error = NoError
    /\ response = 0
    /\ todo = <<>>
    /\ log = {}
    /\ uploads = <<>>
    /\ bucket = {}

AverageScheduledHeadways ==
    /\ pc = "headway_call"
    /\ result' = _average_scheduled_headways(events, service_date)
    /\ pc' = "headway_done"
    /\ UNCHANGED <<service_date, pq_df, lamp_df, events, stop_times, disk, disk_before, clock, args, futures, calls, gtfs_feed, queries, requests, instant, error, response, todo, log,
                   uploads, bucket>>

NextHeadway == AverageScheduledHeadways

SpecHeadway == InitHeadway /\ [][NextHeadway]_vars

(***************************************************************************)
(* SpecBackfill: backfill_all_in_index of chalicelib/lamp/backfill/main.py *)
(***************************************************************************)
MaxBackfillDays == 3

\* dates[::-1]: the days to backfill, most recent first.
BackfillDates == [k \in 1..MaxBackfillDays |-> 20240208 - k]

\* The files of the live feed: no record, one record, or two records of the
\* scheduled trip with both timestamps and a stop_id.
BackfillCodes == {<<>>, <<28>>, <<28, 34>>}

\* The outcomes of ingest_pq_file(df, sd) once the service_date column of df
\* is formatted: the events it returns, or the exception it raises.
ingest_pq_file(df, sd) ==
    LET ev == DropNullStopIds(_process_arrival_departure_times(FilterNonRevenue(df)))
        done(enriched) ==
            [events |-> SortValues(_average_scheduled_headways(enriched, sd), "event_time"),
             error |-> NoError]
        raised(type) == [events |-> <<>>, error |-> [type |-> type]]
        with(feed) ==
            IF StopTimesOf(feed, TripIds(ev)) = <<>>
            THEN {raised("PandasError"),
                  done([i \in DOMAIN ev |-> [ev[i] EXCEPT !.scheduled_tt = Null]])}
            ELSE {done(_recalculate_fields_from_gtfs(ev, StopTimesOf(feed, TripIds(ev))))}
    IN  {raised("GtfsFeedError")}
            \cup IF ev = <<>> THEN {raised("ValueError")}
                 ELSE UNION {with(feed) : feed \in Feeds}

\* The frame df, whose instants count from the midnight of its own service
\* date, with the instants counted from the midnight `days` days earlier.
ShiftDays(df, days) ==
    LET shift(t) == IF IsNull(t) THEN Null ELSE Some(t[1] + 86400 * days)
    IN  [i \in DOMAIN df |->
            [df[i] EXCEPT !.stop_timestamp = shift(@), !.move_timestamp = shift(@)]]

InitBackfill ==
    /\ pc = "backfill_fetch"
    /\ todo = BackfillDates
    /\ service_date = BackfillDates[1]
    /\ pq_df = <<>>
    /\ lamp_df = <<>>
    /\ events = <<>>
    /\ result = <<>>
    /\ stop_times = <<>>
    /\ disk = {}
    /\ disk_before = {}
    /\ clock = 0
    /\ args = NoArgs
    /\ futures = <<>>
    /\ calls = <<>>
    /\ gtfs_feed = NoFeed
    /\ queries = <<>>
    /\ requests = <<>>
    /\ instant = NoInstant
    /\ error = NoError
    /\ response = 0
    /\ log = {}
    /\ uploads = <<>>
    /\ bucket = {}

\* No fetch has bound the local variable pq_df yet.
PqDfUnbound == Len(todo) = Len(BackfillDates)

\* line 30: fetch_pq_file_from_remote returns the day's file.
BackfillFetchOk ==
    /\ pc = "backfill_fetch"
    /\ \E codes \in BackfillCodes : pq_df' = LampTable(codes, service_date)
    /\ response' = 200
    /\ pc' = "backfill_ingest"
    /\ UNCHANGED <<service_date, lamp_df, events, result, stop_times, disk, disk_before, clock, args, futures, calls, gtfs_feed, queries, requests, instant, error, todo, log, uploads,
                   bucket>>

\* lines 31-35: the ValueError of a status other than 200 is printed, and
\* the loop body goes on to ingest_pq_file(pq_df, date_to_backfill): pq_df
\* is unbound in the first iteration (UnboundLocalError), and is the frame of
\* the day before in a later one.
BackfillFetchStatusError ==
    /\ pc = "backfill_fetch"
    /\ \E status \in StatusCodes : response' = status
    /\ log' = log \cup {service_date}
    /\ IF PqDfUnbound
       THEN pc' = "raised" /\ error' = [type |-> "UnboundLocalError"]
       ELSE pc' = "backfill_ingest" /\ UNCHANGED error
    /\ UNCHANGED <<service_date, pq_df, lamp_df, events, result, stop_times, disk, disk_before, clock, args, futures, calls, gtfs_feed, queries, requests, instant, todo, uploads, bucket>>

\* Any other exception of the fetch leaves the loop.
BackfillFetchOtherError ==
    /\ pc = "backfill_fetch"
    /\ error' = [type |-> "ConnectionError"]
    /\ pc' = "raised"
    /\ UNCHANGED <<service_date, pq_df, lamp_df, events, result, stop_times, disk, disk_before, clock, args, futures, calls, gtfs_feed, queries, requests, instant, response, todo, log,
                   uploads, bucket>>

\* line 35 on the frame just fetched: ingest_pq_file formats the frame's
\* service_date column in place and returns the events or raises.
BackfillIngest ==
    /\ pc = "backfill_ingest"
    /\ service_date \notin log
    /\ pq_df' = FormatServiceDates(pq_df)
    /\ \E out \in ingest_pq_file(FormatServiceDates(pq_df), service_date) :
           /\ events' = out.events
           /\ error' = out.error
           /\ pc' = IF out.error = NoError THEN "backfill_upload" ELSE "raised"
    /\ UNCHANGED <<service_date, lamp_df, result, stop_times, disk, disk_before, clock, args, futures, calls, gtfs_feed, queries, requests, instant, response, todo, log, uploads, bucket>>

\* line 35 on the frame of an earlier iteration, whose service_date column
\* is formatted already: format_dateint either raises on the formatted text
\* or hands it back, and then the other day's records are processed as this
\* day's.
BackfillIngestStale ==
    /\ pc = "backfill_ingest"
    /\ service_date \in log
    /\ \/ /\ error' = [type |-> "ValueError"]
          /\ pc' = "raised"
          /\ UNCHANGED events
       \/ \E out \in ingest_pq_file(
                        ShiftDays(pq_df, pq_df[1].service_date[3] - (service_date % 100)),
                        service_date) :
             /\ events' = out.events
             /\ error' = out.error
             /\ pc' = IF out.error = NoError THEN "backfill_upload" ELSE "raised"
    /\ UNCHANGED <<service_date, pq_df, lamp_df, result, stop_times, disk, disk_before, clock, args, futures, calls, gtfs_feed, queries, requests, instant, response, todo, log, uploads,
                   bucket>>

\* lines 38-39: _parallel_upload runs one upload_to_s3 call per stop and
\* waits for all of them; the calls that do not fail write their objects;
\* a failed call's exception leaves the loop, otherwise the next date is
\* taken.
BackfillUpload ==
    /\ pc = "backfill_upload"
    /\ \E failed \in SUBSET StopIds(events) :
          LET written == {S3Key(s, service_date) : s \in StopIds(events) \ failed}
          IN  /\ bucket' = {o \in bucket : o.key \notin written}
                             \cup UNION {PutObject(bucket, S3Key(s, service_date),
                                                   StopEvents(events, s)) \ bucket :
                                            s \in StopIds(events) \ failed}
              /\ uploads' = [s \in StopIds(events) |->
                                IF s \in failed THEN "failed" ELSE "ok"]
              /\ IF failed # {}
                 THEN /\ pc' = "raised"
                      /\ error' = [type |-> "UploadError"]
                      /\ UNCHANGED <<todo, service_date>>
                 ELSE /\ todo' = Tail(todo)
                      /\ pc' = IF Tail(todo) = <<>> THEN "backfill_done" ELSE "backfill_fetch"
                      /\ service_date' = IF Tail(todo) = <<>> THEN service_date
                                         ELSE Tail(todo)[1]
                      /\ UNCHANGED error
    /\ UNCHANGED <<pq_df, lamp_df, events, result, stop_times, disk, disk_before, clock, args, futures, calls, gtfs_feed, queries, requests, instant, response, log>>

NextBackfill ==
    \/ BackfillFetchOk
    \/ BackfillFetchStatusError
    \/ BackfillFetchOtherError
    \/ BackfillIngest
    \/ BackfillIngestStale
    \/ BackfillUpload

SpecBackfill == InitBackfill /\ [][NextBackfill]_vars

(***************************************************************************)
(* SpecBranch: _derive_lamp_branch_route_id and                            *)
(* _derive_gtfs_branch_route_id on frames with the same trips              *)
(***************************************************************************)
MaxBranchRows == 3

BranchTrips == <<REGULAR_TRIP, NONREV_TRIP>>
BranchRoutes == <<"Red", "Orange", "Green-B">>

\* A trunk stop, an Ashmont branch stop and a Braintree branch stop.
BranchStops == <<"70061", "70085", "70095">>

\* Code c in 0..17 decodes to the trip, route and stop of a row.
BranchTrip(c) == BranchTrips[(c % 2) + 1]
BranchRoute(c) == BranchRoutes[((c \div 2) % 3) + 1]
BranchStop(c) == BranchStops[(c \div 6) + 1]

\* The event of the live feed and the stop time of the schedule for code c.
BranchEvent(c) ==
    [ArrEvent(RawRecord(<<2024, 2, 7>>, BranchTrip(c), "R-001", 1, BranchStop(c), "arr",
                        Some(290)))
        EXCEPT !.route_id = BranchRoute(c)]

BranchStopTime(c) ==
    [StopTimeRow(BranchTrip(c), BranchStop(c), 29300) EXCEPT !.route_id = BranchRoute(c)]

InitBranch ==
    /\ pc = "branch_call"
    /\ \E n \in 0..MaxBranchRows : \E codes \in CodeSeqs(n, 0, 17) :
       \E lamp_reversed, gtfs_reversed \in BOOLEAN :
           LET lamp == [i \in DOMAIN codes |-> BranchEvent(codes[i])]
               gtfs == [i \in DOMAIN codes |-> BranchStopTime(codes[i])]
           IN  /\ events = AsTable(IF lamp_reversed THEN Reverse(lamp) ELSE lamp)
               /\ stop_times = IF gtfs_reversed THEN Reverse(gtfs) ELSE gtfs
    /\ service_date = 20240207
    /\ pq_df = <<>>
    /\ lamp_df = <<>>
    /\ result = <<>>
    /\ disk = {}
    /\ disk_before = {}
    /\ clock = 0
    /\ args = NoArgs
    /\ futures = <<>>
    /\ calls = <<>>
    /\ gtfs_feed = NoFeed
    /\ queries = <<>>
    /\ requests = <<>>
    /\ instant = NoInstant
    /\ error = NoError
    /\ response = 0
    /\ todo = <<>>
    /\ log = {}
    /\ uploads = <<>>
    /\ bucket = {}

\* _derive_lamp_branch_route_id(events); the frame returned is kept in lamp_df.
DeriveLampBranchRouteId ==
    /\ pc = "branch_call"
    /\ lamp_df' = _derive_lamp_branch_route_id(events)
    /\ pc' = "branch_lamp_done"
    /\ UNCHANGED <<service_date, pq_df, events, result, stop_times, disk, disk_before, clock, args, futures, calls, gtfs_feed, queries, requests, instant, error, response,
                   todo, log, uploads, bucket>>

\* _derive_gtfs_branch_route_id(stop_times); the frame returned is kept in
\* result.
DeriveGtfsBranchRouteId ==
    /\ pc = "branch_lamp_done"
    /\ result' = _derive_gtfs_branch_route_id(stop_times)
    /\ pc' = "branch_done"
    /\ UNCHANGED <<service_date, pq_df, lamp_df, events, stop_times, disk, disk_before, clock, args, futures, calls, gtfs_feed, queries, requests, instant, error, response,
                   todo, log, uploads, bucket>>

NextBranch ==
    \/ DeriveLampBranchRouteId
    \/ DeriveGtfsBranchRouteId

SpecBranch == InitBranch /\ [][NextBranch]_vars

(***************************************************************************)
(* historic/process.py: to_disk and to_disk_bus (SpecToDisk)               *)
(***************************************************************************)

MaxDiskRows == 2

NaT == <<>>

\* pd.Grouper(key="service_date", freq="1ME"): the month of the service date;
\* a NaT service date has no month.
MonthOf(d) == IF d = NaT THEN NaT ELSE <<d[1], d[2]>>

\* Variant: the rows are grouped by stop only.
GroupKeyNoMonth(e) == <<e.stop_id>>

\* df.groupby([service_date_month, "stop_id"]): the key of a row.
GroupKey(e) == <<MonthOf(e.service_date), e.stop_id>>

\* df.groupby([service_date_month, "stop_id", "direction_id", "route_id"]).
GroupKeyBus(e) == <<MonthOf(e.service_date), e.stop_id, e.direction_id, e.route_id>>

\* groupby (dropna=True) leaves out the rows with a null in a key column.
KeyIsNull(e, bus) ==
    \/ e.service_date = NaT
    \/ e.stop_id = NA
    \/ bus /\ e.route_id = NA

\* Path(outdir, "Events", "monthly-data", stop_id, f"Year={year}",
\* f"Month={month}", "events.csv.gz")
DiskPath(e) ==
    [dir |-> "monthly-data", name |-> <<e.stop_id>>,
     Year |-> Digits(e.service_date[1]), Month |-> Digits(e.service_date[2]),
     file |-> "events.csv.gz"]

\* Path(outdir, "Events", "monthly-bus-data",
\* f"{route_id}-{direction_id}-{stop_id}", f"Year={year}", f"Month={month}",
\* "events.csv.gz")
DiskPathBus(e) ==
    [dir |-> "monthly-bus-data",
     name |-> <<e.route_id, "-", e.direction_id, "-", e.stop_id>>,
     Year |-> Digits(e.service_date[1]), Month |-> Digits(e.service_date[2]),
     file |-> "events.csv.gz"]

\* Variant: the gzip header carries the time of the write.
GzipHeaderNow(nozip, now) == IF nozip THEN Null ELSE Some(now)

\* compression={"method": "gzip", "mtime": 0} if not nozip else None: the
\* modification time in the gzip header, none without compression.
GzipHeader(nozip, now) == IF nozip THEN Null ELSE Some(0)

\* events.to_csv(fname, index=False, compression=...): the file written for
\* the group of row e, the rows of the group in their input order.
CsvFile(df, e, bus, nozip, now) ==
    [path |-> IF bus THEN DiskPathBus(e) ELSE DiskPath(e),
     rows |-> SelectSeq(df, LAMBDA x : IF bus THEN GroupKeyBus(x) = GroupKeyBus(e)
                                                ELSE GroupKey(x) = GroupKey(e)),
     gzip |-> GzipHeader(nozip, now)]

\* The files written by one call: one per group with a key free of nulls.
WrittenFiles(df, bus, nozip, now) ==
    {CsvFile(df, df[i], bus, nozip, now) :
        i \in {j \in DOMAIN df : ~KeyIsNull(df[j], bus)}}

\* to_csv opens the file for writing: a file at the same path is replaced.
WriteAll(files, written) ==
    {f \in files : \A w \in written : w.path # f.path} \cup written

DiskDates == <<<<2024, 1, 31>>, <<2024, 2, 1>>, <<2023, 2, 1>>, NaT>>
DiskStops == <<"70001", "70003", NA>>
DiskRoutes == <<"1", "1", NA>>
DiskDirections == <<0, 1, 0>>

\* Input rows are numbered 0..35: date, stop and (route, direction); row is
\* the position of the event in the input, 0 for an event of an earlier run.
DiskEvent(c) ==
    [service_date |-> DiskDates[(c \div 9) + 1],
     stop_id |-> DiskStops[((c \div 3) % 3) + 1],
     route_id |-> DiskRoutes[(c % 3) + 1],
     direction_id |-> DiskDirections[(c % 3) + 1],
     row |-> 0]

DiskTable(codes) == [i \in DOMAIN codes |-> [DiskEvent(codes[i]) EXCEPT !.row = i]]

\* Files left under outdir by an earlier run on other events, at paths the
\* run may write again.
OldEvent == DiskEvent(9)
OldFiles ==
    {[path |-> DiskPath(OldEvent), rows |-> <<OldEvent>>, gzip |-> Some(0)],
     [path |-> DiskPathBus(OldEvent), rows |-> <<OldEvent>>, gzip |-> Some(0)]}

InitToDisk ==
    /\ pc = "to_disk_call"
    /\ \E n \in 0..MaxDiskRows : \E codes \in CodeSeqs(n, 0, 35) : \E rev \in BOOLEAN :
        events = DiskTable(IF rev THEN Reverse(codes) ELSE codes)
    /\ args \in [bus : BOOLEAN, nozip : BOOLEAN]
    /\ futures = <<>>
    /\ calls = <<>>
    /\ gtfs_feed = NoFeed
    /\ queries = <<>>
    /\ requests = <<>>
    /\ disk \in {{}, OldFiles}
    /\ disk_before = {}
    /\ clock = 1
    /\ service_date = 0
    /\ pq_df = <<>>
    /\ lamp_df = <<>>
    /\ result = <<>>
    /\ stop_times = <<>>
    /\ instant = NoInstant
    /\ error = NoError
    /\ response = 0
    /\ todo = <<>>
    /\ log = {}
    /\ uploads = <<>>
    /\ bucket = {}

\* to_disk(df, outdir, nozip), called a first and a second time on the same
\* events; the clock moves on with every call.
ToDisk ==
    /\ pc \in {"to_disk_call", "to_disk_again"}
    /\ ~args.bus
    /\ disk_before' = disk
    /\ disk' = WriteAll(disk, WrittenFiles(events, FALSE, args.nozip, clock))
    /\ clock' = clock + 1
    /\ pc' = IF pc = "to_disk_call" THEN "to_disk_again" ELSE "to_disk_done"
    /\ UNCHANGED <<service_date, pq_df, lamp_df, events, result, stop_times, args,
                   futures, calls, gtfs_feed, queries, requests, instant, error, response, todo, log, uploads, bucket>>

\* to_disk_bus(df, root, nozip), likewise.
ToDiskBus ==
    /\ pc \in {"to_disk_call", "to_disk_again"}
    /\ args.bus
    /\ disk_before' = disk
    /\ disk' = WriteAll(disk, WrittenFiles(events, TRUE, args.nozip, clock))
    /\ clock' = clock + 1
    /\ pc' = IF pc = "to_disk_call" THEN "to_disk_again" ELSE "to_disk_done"
    /\ UNCHANGED <<service_date, pq_df, lamp_df, events, result, stop_times, args,
                   futures, calls, gtfs_feed, queries, requests, instant, error, response, todo, log, uploads, bucket>>

NextToDisk == ToDisk \/ ToDiskBus

SpecToDisk == InitToDisk /\ [][NextToDisk]_vars

(***************************************************************************)
(* parallel.py: the function returned by make_parallel (SpecParallel)      *)
(***************************************************************************)

MaxItems == 6

\* The wrapped function of the model: for item n it returns n values, each
\* naming the item and the extra argument it was given.
single_func(item, extra) == [k \in 1..item |-> <<item, k, extra>>]

\* Variant: only the values of the last call are returned.
LastResult(lists) == IF lists = <<>> THEN <<>> ELSE lists[Len(lists)]

\* [val for future in futures for val in future.result()]
RECURSIVE Flatten(_)
Flatten(lists) == IF lists = <<>> THEN <<>> ELSE Head(lists) \o Flatten(Tail(lists))

InitParallel ==
    /\ pc = "parallel_call"
    /\ \E n \in 0..MaxItems : \E items \in CodeSeqs(n, 0, 2) : \E extra \in {"x", "y"} :
        args = [iterable |-> items, extra |-> extra]
    /\ futures = <<>>
    /\ calls = <<>>
    /\ gtfs_feed = NoFeed
    /\ queries = <<>>
    /\ requests = <<>>
    /\ result = <<>>
    /\ error = NoError
    /\ service_date = 0
    /\ pq_df = <<>>
    /\ lamp_df = <<>>
    /\ events = <<>>
    /\ stop_times = <<>>
    /\ disk = {}
    /\ disk_before = {}
    /\ clock = 0
    /\ instant = NoInstant
    /\ response = 0
    /\ todo = <<>>
    /\ log = {}
    /\ uploads = <<>>
    /\ bucket = {}

\* for i in iterable: futures.append(executor.submit(single_func, i, *args,
\* **kwargs)): one future per item, in the order of the iterable.
SubmitAll ==
    /\ pc = "parallel_call"
    /\ futures' = [i \in DOMAIN args.iterable |-> [state |-> "queued", value |-> <<>>]]
    /\ calls' = [i \in DOMAIN args.iterable |-> <<>>]
    /\ pc' = "parallel_pool"
    /\ UNCHANGED <<service_date, pq_df, lamp_df, events, result, stop_times, disk, disk_before,
                   clock, args, gtfs_feed, queries, requests, instant, error, response, todo, log, uploads, bucket>>

InFlight == {i \in DOMAIN futures : futures[i].state = "running"}

\* Variant: a thread is started for every queued call.
StartCallUnbounded(i) ==
    /\ pc = "parallel_pool"
    /\ futures[i].state = "queued"
    /\ \A j \in 1..(i - 1) : futures[j].state # "queued"
    /\ futures' = [futures EXCEPT ![i].state = "running"]
    /\ calls' = [calls EXCEPT ![i] = Append(@, [item |-> args.iterable[i], extra |-> args.extra])]
    /\ UNCHANGED <<pc, service_date, pq_df, lamp_df, events, result, stop_times, disk, disk_before,
                   clock, args, gtfs_feed, queries, requests, instant, error, response, todo, log, uploads, bucket>>

\* ThreadPoolExecutor(max_workers=THREAD_COUNT): an idle worker, one of at
\* most THREAD_COUNT, takes the oldest queued call and calls
\* single_func(i, *args, **kwargs).
StartCall(i) ==
    /\ pc = "parallel_pool"
    /\ futures[i].state = "queued"
    /\ \A j \in 1..(i - 1) : futures[j].state # "queued"
    /\ Cardinality(InFlight) < THREAD_COUNT
    /\ futures' = [futures EXCEPT ![i].state = "running"]
    /\ calls' = [calls EXCEPT ![i] = Append(@, [item |-> args.iterable[i], extra |-> args.extra])]
    /\ UNCHANGED <<pc, service_date, pq_df, lamp_df, events, result, stop_times, disk, disk_before,
                   clock, args, gtfs_feed, queries, requests, instant, error, response, todo, log, uploads, bucket>>

\* The call returns its list.
CallReturns(i) ==
    /\ pc = "parallel_pool"
    /\ futures[i].state = "running"
    /\ LET call == calls[i][Len(calls[i])]
       IN  futures' = [futures EXCEPT ![i] = [state |-> "returned",
                                              value |-> single_func(call.item, call.extra)]]
    /\ UNCHANGED <<pc, service_date, pq_df, lamp_df, events, result, stop_times, disk, disk_before,
                   clock, args, calls, gtfs_feed, queries, requests, instant, error, response, todo, log, uploads, bucket>>

\* The call raises.
CallRaises(i) ==
    /\ pc = "parallel_pool"
    /\ futures[i].state = "running"
    /\ futures' = [futures EXCEPT ![i].state = "raised"]
    /\ UNCHANGED <<pc, service_date, pq_df, lamp_df, events, result, stop_times, disk, disk_before,
                   clock, args, calls, gtfs_feed, queries, requests, instant, error, response, todo, log, uploads, bucket>>

\* Variant: the executor is left as soon as one call has raised.
LeavesOnFirstError(fs) ==
    \/ \E i \in DOMAIN fs : fs[i].state = "raised"
    \/ \A i \in DOMAIN fs : fs[i].state \in {"returned", "raised"}

\* The end of the with block, executor.shutdown(wait=True): every call
\* submitted has ended.
ExecutorLeft(fs) == \A i \in DOMAIN fs : fs[i].state \in {"returned", "raised"}

\* The with block ends when every call has ended; the results are then read
\* in submission order, and the first future that raised raises here.
CollectResults ==
    /\ pc = "parallel_pool"
    /\ ExecutorLeft(futures)
    /\ IF \E i \in DOMAIN futures : futures[i].state = "raised"
       THEN /\ pc' = "parallel_raised"
            /\ error' = [type |-> "CallError",
                         call |-> Min({i \in DOMAIN futures : futures[i].state = "raised"})]
            /\ UNCHANGED result
       ELSE /\ pc' = "parallel_done"
            /\ result' = Flatten([i \in DOMAIN futures |-> futures[i].value])
            /\ UNCHANGED error
    /\ UNCHANGED <<service_date, pq_df, lamp_df, events, stop_times, disk, disk_before,
                   clock, args, futures, calls, gtfs_feed, queries, requests, instant, response, todo, log, uploads, bucket>>

NextParallel ==
    \/ SubmitAll
    \/ \E i \in DOMAIN futures : StartCall(i)
    \/ \E i \in DOMAIN futures : CallReturns(i)
    \/ \E i \in DOMAIN futures : CallRaises(i)
    \/ CollectResults

SpecParallel == InitParallel /\ [][NextParallel]_vars

(***************************************************************************)
(* gtfs.py: fetch_stop_times_from_gtfs (SpecGtfs)                          *)
(***************************************************************************)

MaxBatches == 2
MAX_QUERY_DEPTH == 900

\* The numbers of trip ids asked for: around every multiple of
\* MAX_QUERY_DEPTH up to MaxBatches full batches.
TripCounts ==
    {n \in 0..(MaxBatches * MAX_QUERY_DEPTH + 1) :
        \E k \in 0..MaxBatches : n \in {k * MAX_QUERY_DEPTH - 1, k * MAX_QUERY_DEPTH,
                                        k * MAX_QUERY_DEPTH + 1}}

\* Variant: the slice runs one id into the next batch.
BatchInclusive(ids, start) == SubSeq(ids, start + 1, Min({start + MAX_QUERY_DEPTH + 1, Len(ids)}))

\* trip_ids[start : start + MAX_QUERY_DEPTH], start counted from 0.
Batch(ids, start) == SubSeq(ids, start + 1, Min({start + MAX_QUERY_DEPTH, Len(ids)}))

\* pd.read_sql(session.query(...).filter(or_(StopTime.trip_id == tid for tid
\* in batch))...): the stop times the feed holds for the ids of the batch,
\* rows_per_trip for each id.
ReadSql(batch, rows_per_trip) ==
    [p \in 1..(Len(batch) * rows_per_trip) |->
        [trip_id |-> batch[((p - 1) \div rows_per_trip) + 1],
         stop_sequence |-> ((p - 1) % rows_per_trip) + 1]]

\* Variant: the feed is uploaded whether or not it is in the bucket.
AlwaysUpload(exists_remotely) == TRUE

\* if not exists_remotely:
NeedsUpload(exists_remotely) == ~exists_remotely

InitGtfs ==
    /\ pc = "gtfs_call"
    /\ \E n \in TripCounts : args = [trip_ids |-> [i \in 1..n |-> i]]
    /\ \E remote \in BOOLEAN, rows \in 0..2 :
        gtfs_feed = [exists_remotely |-> remote, rows_per_trip |-> rows, built |-> FALSE, uploads |-> 0]
    /\ queries = <<>>
    /\ requests = <<>>
    /\ result = <<>>
    /\ error = NoError
    /\ futures = <<>>
    /\ calls = <<>>
    /\ service_date = 0
    /\ pq_df = <<>>
    /\ lamp_df = <<>>
    /\ events = <<>>
    /\ stop_times = <<>>
    /\ disk = {}
    /\ disk_before = {}
    /\ clock = 0
    /\ instant = NoInstant
    /\ response = 0
    /\ todo = <<>>
    /\ log = {}
    /\ uploads = <<>>
    /\ bucket = {}

\* feed.download_or_build() succeeds; exists_remotely is read next.
DownloadOrBuild ==
    /\ pc = "gtfs_call"
    /\ gtfs_feed' = [gtfs_feed EXCEPT !.built = TRUE]
    /\ pc' = "gtfs_query"
    /\ UNCHANGED <<service_date, pq_df, lamp_df, events, result, stop_times, disk, disk_before,
                   clock, args, futures, calls, queries, requests, instant, error, response, todo, log,
                   uploads, bucket>>

\* feed.download_or_build() raises: logged and raised again.
DownloadOrBuildRaises ==
    /\ pc = "gtfs_call"
    /\ error' = [type |-> "GtfsFeedError"]
    /\ pc' = "gtfs_raised"
    /\ UNCHANGED <<service_date, pq_df, lamp_df, events, result, stop_times, disk, disk_before,
                   clock, args, futures, calls, gtfs_feed, queries, requests, instant, response, todo, log,
                   uploads, bucket>>

\* One turn of for start in range(0, len(trip_ids), MAX_QUERY_DEPTH); the
\* loop ends when start reaches len(trip_ids).
QueryBatch ==
    /\ pc = "gtfs_query"
    /\ LET start == Len(queries) * MAX_QUERY_DEPTH
       IN  IF start < Len(args.trip_ids)
           THEN /\ queries' = Append(queries,
                        [ids |-> Batch(args.trip_ids, start),
                         rows |-> ReadSql(Batch(args.trip_ids, start), gtfs_feed.rows_per_trip)])
                /\ pc' = "gtfs_query"
           ELSE /\ pc' = "gtfs_upload"
                /\ UNCHANGED queries
    /\ UNCHANGED <<service_date, pq_df, lamp_df, events, result, stop_times, disk, disk_before,
                   clock, args, futures, calls, gtfs_feed, requests, instant, error, response, todo, log,
                   uploads, bucket>>

\* pd.read_sql raises in a turn of the loop.
QueryRaises ==
    /\ pc = "gtfs_query"
    /\ Len(queries) * MAX_QUERY_DEPTH < Len(args.trip_ids)
    /\ error' = [type |-> "SqlError"]
    /\ pc' = "gtfs_raised"
    /\ UNCHANGED <<service_date, pq_df, lamp_df, events, result, stop_times, disk, disk_before,
                   clock, args, futures, calls, gtfs_feed, queries, requests, instant, response, todo, log,
                   uploads, bucket>>

\* if not exists_remotely: feed.upload_to_s3()
UploadFeed ==
    /\ pc = "gtfs_upload"
    /\ IF NeedsUpload(gtfs_feed.exists_remotely)
       THEN gtfs_feed' = [gtfs_feed EXCEPT !.uploads = @ + 1]
       ELSE UNCHANGED gtfs_feed
    /\ pc' = "gtfs_concat"
    /\ UNCHANGED <<service_date, pq_df, lamp_df, events, result, stop_times, disk, disk_before,
                   clock, args, futures, calls, queries, requests, instant, error, response, todo, log,
                   uploads, bucket>>

\* feed.upload_to_s3() raises: logged and raised again.
UploadFeedRaises ==
    /\ pc = "gtfs_upload"
    /\ NeedsUpload(gtfs_feed.exists_remotely)
    /\ error' = [type |-> "UploadError"]
    /\ pc' = "gtfs_raised"
    /\ UNCHANGED <<service_date, pq_df, lamp_df, events, result, stop_times, disk, disk_before,
                   clock, args, futures, calls, gtfs_feed, queries, requests, instant, response, todo, log,
                   uploads, bucket>>

\* result = pd.concat(gtfs_stops): the batch results in batch order;
\* pd.concat of an empty list raises ValueError.
ConcatBatches ==
    /\ pc = "gtfs_concat"
    /\ IF queries = <<>>
       THEN /\ error' = [type |-> "ValueError", what |-> "No objects to concatenate"]
            /\ pc' = "gtfs_raised"
            /\ UNCHANGED result
       ELSE /\ result' = Flatten([q \in DOMAIN queries |-> queries[q].rows])
            /\ pc' = "gtfs_done"
            /\ UNCHANGED error
    /\ UNCHANGED <<service_date, pq_df, lamp_df, events, stop_times, disk, disk_before,
                   clock, args, futures, calls, gtfs_feed, queries, requests, instant, response, todo, log,
                   uploads, bucket>>

NextGtfs ==
    \/ DownloadOrBuild
    \/ DownloadOrBuildRaises
    \/ QueryBatch
    \/ QueryRaises
    \/ UploadFeed
    \/ UploadFeedRaises
    \/ ConcatBatches

SpecGtfs == InitGtfs /\ [][NextGtfs]_vars

(***************************************************************************)
(* SpecAlias: ingest_pq_file on records with aliased stop ids              *)
(***************************************************************************)
MaxAliasRows == 2
AliasStops == <<"Alewife-01", "Forest Hills-01", "70063">>

\* Codes 0..17: stop_sequence 1..2, stop_id and timestamps of a record of
\* the scheduled trip.
AliasRecord(c, sd) ==
    RawRecord(sd, REGULAR_TRIP, "O-001", (c % 2) + 1, AliasStops[((c \div 2) % 3) + 1],
              Timestamps[(c \div 6) + 1], Some(290))

InitAlias ==
    /\ pc = "ingest_filter"
    /\ service_date = 20240213
    /\ \E n \in 0..MaxAliasRows : \E codes \in CodeSeqs(n, 0, 17) : \E reversed \in BOOLEAN :
        pq_df = AsTable(IF reversed
                        THEN Reverse([i \in DOMAIN codes |-> AliasRecord(codes[i], service_date)])
                        ELSE [i \in DOMAIN codes |-> AliasRecord(codes[i], service_date)])
    /\ lamp_df = <<>>
    /\ events = <<>>
    /\ result = <<>>
    /\ stop_times = <<>>
    /\ disk = {}
    /\ disk_before = {}
    /\ clock = 0
    /\ args = NoArgs
    /\ futures = <<>>
    /\ calls = <<>>
    /\ gtfs_feed = NoFeed
    /\ queries = <<>>
    /\ requests = <<>>
    /\ instant = NoInstant
    /\ error = NoError
    /\ response = 200
    /\ todo = <<>>
    /\ log = {}
    /\ uploads = <<>>
    /\ bucket = {}

\* The steps of ingest_pq_file, to its return.
NextAlias ==
    \/ IngestFilter
    \/ IngestArrivalDeparture
    \/ IngestDropNullStopIds
    \/ IngestRecalculate
    \/ IngestGtfsFetchFails
    \/ IngestAverageHeadways
    \/ IngestSort

SpecAlias == InitAlias /\ [][NextAlias]_vars

(***************************************************************************)
(* historic/download.py: download_historic_data, download_bus_data         *)
(* (SpecDownload)                                                          *)
(***************************************************************************)

ARCGIS_IDS ==
    [y \in {"2016", "2017", "2018", "2019", "2020", "2021", "2022", "2023", "2024", "2025"} |->
        CASE y = "2016" -> "3e892be850fe4cc4a15d6450de4bd318"
          [] y = "2017" -> "cde60045db904ad299922f4f8759dcad"
          [] y = "2018" -> "25c3086e9826407e9f59dd9844f6c975"
          [] y = "2019" -> "11bbb87f8fb245c2b87ed3c8a099b95f"
          [] y = "2020" -> "cb4cf52bafb1402b9b978a424ed4dd78"
          [] y = "2021" -> "611b8c77f30245a0af0c62e2859e8b49"
          [] y = "2022" -> "99094a0c59e443cdbdaefa071c6df609"
          [] y = "2023" -> "9a7f5634db72459ab731b6a9b274a1d4"
          [] y = "2024" -> "0711756aa5e1400891e79b984a94b495"
          [] OTHER -> "e2344a2297004b36b82f57772926ed1a"]

BUS_ARCGIS_IDS ==
    [y \in {"2020", "2021", "2022", "2023", "2024", "2025"} |->
        CASE y = "2020" -> "4c1293151c6c4a069d49e6b85ee68ea4"
          [] y = "2021" -> "2d415555f63b431597721151a7e07a3e"
          [] y = "2022" -> "ef464a75666349f481353f16514c06d0"
          [] y = "2023" -> "b7b36fdb7b3a4728af2fccc78c2ca5b7"
          [] y = "2024" -> "96c77138c3144906bce93d0257531b6a"
          [] OTHER -> "924df13d845f4907bb6a6c3ed380d57a"]

\* The id table of the function called.
IdTable(bus) == IF bus THEN BUS_ARCGIS_IDS ELSE ARCGIS_IDS

\* f"https://www.arcgis.com/sharing/rest/content/items/{id}/data"
ArcgisUrl(id) == <<"https://www.arcgis.com/sharing/rest/content/items/", id, "/data">>

\* f"data/input/{year}.zip", for bus f"data/input/bus/{year}.zip"
ZipPath(year, bus) ==
    IF bus THEN <<"data/input/bus/", year, ".zip">> ELSE <<"data/input/", year, ".zip">>

\* Variant: only a client or server error status is refused.
StatusBelow400(status_code) == status_code < 400

\* response.status_code != 200 raises.
StatusOk(status_code) == status_code = 200

\* The years asked for: every year of a table and three of none.
DownloadYears == DOMAIN ARCGIS_IDS \cup {"1999", "2015", "2026"}
DownloadStatusCodes == {200, 204, 404, 500}

\* A zip left in data/input by an earlier download.
OldZips == {[path |-> ZipPath("2024", bus), rows |-> "old", gzip |-> Null] : bus \in BOOLEAN}

InitDownload ==
    /\ pc = "download_call"
    /\ args \in [year : DownloadYears, bus : BOOLEAN]
    /\ disk \in {{}, OldZips}
    /\ disk_before = {}
    /\ requests = <<>>
    /\ response = 0
    /\ result = <<>>
    /\ error = NoError
    /\ clock = 0
    /\ futures = <<>>
    /\ calls = <<>>
    /\ gtfs_feed = NoFeed
    /\ queries = <<>>
    /\ service_date = 0
    /\ pq_df = <<>>
    /\ lamp_df = <<>>
    /\ events = <<>>
    /\ stop_times = <<>>
    /\ instant = NoInstant
    /\ todo = <<>>
    /\ log = {}
    /\ uploads = <<>>
    /\ bucket = {}

\* if year not in ARCGIS_IDS.keys(): raise ValueError(f"Year {year} dataset
\* is not available. Supported years are {list(ARCGIS_IDS.keys())}")
DownloadUnsupportedYear ==
    /\ pc = "download_call"
    /\ args.year \notin DOMAIN IdTable(args.bus)
    /\ error' = [type |-> "ValueError", year |-> args.year,
                 supported |-> DOMAIN IdTable(args.bus)]
    /\ pc' = "download_raised"
    /\ UNCHANGED <<service_date, pq_df, lamp_df, events, result, stop_times, disk, disk_before,
                   clock, args, futures, calls, gtfs_feed, queries, requests, instant, response,
                   todo, log, uploads, bucket>>

\* response = requests.get(url), answered with a status other than 200.
DownloadStatusError ==
    /\ pc = "download_call"
    /\ args.year \in DOMAIN IdTable(args.bus)
    /\ \E status \in DownloadStatusCodes :
        /\ ~StatusOk(status)
        /\ response' = status
        /\ error' = [type |-> "ValueError", url |-> ArcgisUrl(IdTable(args.bus)[args.year]),
                     status_code |-> status]
    /\ requests' = Append(requests, ArcgisUrl(IdTable(args.bus)[args.year]))
    /\ pc' = "download_raised"
    /\ UNCHANGED <<service_date, pq_df, lamp_df, events, result, stop_times, disk, disk_before,
                   clock, args, futures, calls, gtfs_feed, queries, instant,
                   todo, log, uploads, bucket>>

\* The request is answered with 200: the content is written to the zip file
\* and its path is returned.
DownloadOk ==
    /\ pc = "download_call"
    /\ args.year \in DOMAIN IdTable(args.bus)
    /\ \E status \in DownloadStatusCodes :
        /\ StatusOk(status)
        /\ response' = status
    /\ requests' = Append(requests, ArcgisUrl(IdTable(args.bus)[args.year]))
    /\ disk_before' = disk
    /\ disk' = WriteAll(disk, {[path |-> ZipPath(args.year, args.bus),
                                rows |-> IdTable(args.bus)[args.year], gzip |-> Null]})
    /\ result' = ZipPath(args.year, args.bus)
    /\ pc' = "download_done"
    /\ UNCHANGED <<service_date, pq_df, lamp_df, events, stop_times,
                   clock, args, futures, calls, gtfs_feed, queries, instant, error,
                   todo, log, uploads, bucket>>

NextDownload == DownloadUnsupportedYear \/ DownloadStatusError \/ DownloadOk

SpecDownload == InitDownload /\ [][NextDownload]_vars

(***************************************************************************)
(* historic/process.py: process_events (SpecProcess)                       *)
(***************************************************************************)

\* The exceptions add_gtfs_headways ends with: IndexError, and the ValueError
\* of pd.concat on no frames (incomplete GTFS, or no events).
GtfsHeadwayErrors == {"IndexError", "ValueError"}

\* except IndexError:
CatchesIndexError(exception) == exception = "IndexError"

\* add_gtfs_headways(df): the events with the schedule-derived columns.
WithGtfsHeadways(df) ==
    [i \in DOMAIN df |->
        [service_date |-> df[i].service_date, stop_id |-> df[i].stop_id,
         route_id |-> df[i].route_id, direction_id |-> df[i].direction_id,
         row |-> df[i].row, scheduled_headway |-> Some(600), scheduled_tt |-> Some(120)]]

InitProcess ==
    /\ pc = "process_call"
    /\ \E n \in 0..MaxDiskRows : \E codes \in CodeSeqs(n, 0, 35) :
        /\ pq_df = DiskTable(codes)
        /\ events = DiskTable(codes)
    /\ args \in [bus : {FALSE}, nozip : BOOLEAN]
    /\ disk \in {{}, OldFiles}
    /\ disk_before = {}
    /\ clock = 1
    /\ calls = <<>>
    /\ error = NoError
    /\ futures = <<>>
    /\ gtfs_feed = NoFeed
    /\ queries = <<>>
    /\ requests = <<>>
    /\ service_date = 0
    /\ lamp_df = <<>>
    /\ result = <<>>
    /\ stop_times = <<>>
    /\ instant = NoInstant
    /\ response = 0
    /\ todo = <<>>
    /\ log = {}
    /\ uploads = <<>>
    /\ bucket = {}

\* df = add_gtfs_headways(df) returns.
AddGtfsHeadways ==
    /\ pc = "process_call"
    /\ events' = WithGtfsHeadways(events)
    /\ pc' = "process_write"
    /\ UNCHANGED <<service_date, pq_df, lamp_df, result, stop_times, disk, disk_before, clock,
                   args, futures, calls, gtfs_feed, queries, requests, instant, error, response,
                   todo, log, uploads, bucket>>

\* add_gtfs_headways raises: an exception the except clause names is passed
\* over and df stays as read; any other leaves process_events.
AddGtfsHeadwaysRaises ==
    /\ pc = "process_call"
    /\ \E exception \in GtfsHeadwayErrors :
        /\ error' = [type |-> exception]
        /\ pc' = IF CatchesIndexError(exception) THEN "process_write" ELSE "process_raised"
    /\ UNCHANGED <<service_date, pq_df, lamp_df, events, result, stop_times, disk, disk_before,
                   clock, args, futures, calls, gtfs_feed, queries, requests, instant, response,
                   todo, log, uploads, bucket>>

\* to_disk(df, outdir, nozip)
ProcessToDisk ==
    /\ pc = "process_write"
    /\ calls' = Append(calls, [df |-> events, nozip |-> args.nozip])
    /\ disk_before' = disk
    /\ disk' = WriteAll(disk, WrittenFiles(events, FALSE, args.nozip, clock))
    /\ clock' = clock + 1
    /\ pc' = "process_done"
    /\ UNCHANGED <<service_date, pq_df, lamp_df, events, result, stop_times, args, futures,
                   gtfs_feed, queries, requests, instant, error, response, todo, log, uploads,
                   bucket>>

NextProcess == AddGtfsHeadways \/ AddGtfsHeadwaysRaises \/ ProcessToDisk

SpecProcess == InitProcess /\ [][NextProcess]_vars

(***************************************************************************)
(* SpecRecalc: _recalculate_fields_from_gtfs on its own                    *)
(***************************************************************************)
MaxRecalcRows == 3
RecalcTrips == <<"T1", "T2">>
RecalcStops == <<"70001", "70003", "70005">>
RecalcTimes == <<28700, 29700, 30700>>

\* Codes 0..17: trip, stop and time of an event of route Orange.
RecalcEvent(c) ==
    [row |-> 0, trip_id |-> RecalcTrips[(c % 2) + 1], route_id |-> "Orange",
     direction_id |-> 0, stop_id |-> RecalcStops[((c \div 2) % 3) + 1],
     event_time |-> RecalcTimes[(c \div 6) + 1], event_type |-> "ARR",
     scheduled_tt |-> Some(55)]

\* The schedules: two trips on the same stops; a trip that calls at 70003
\* twice; two trips at equal distance from 29700 at 70001, the first of
\* which does not call at 70003; two trips at 70005 in one 30-minute bucket.
RecalcFeeds ==
    {<<StopTimeRow("T2", "70003", 30700), StopTimeRow("T1", "70001", 28700),
       StopTimeRow("T1", "70003", 29400), StopTimeRow("T2", "70001", 30000)>>,
     <<StopTimeRow("T1", "70003", 29500), StopTimeRow("T1", "70001", 30000),
       StopTimeRow("T1", "70003", 30700)>>,
     <<StopTimeRow("T1", "70001", 29400), StopTimeRow("T1", "70005", 29500),
       StopTimeRow("T2", "70001", 30000), StopTimeRow("T2", "70003", 30100)>>,
     <<StopTimeRow("T2", "70001", 28850), StopTimeRow("T1", "70001", 28900),
       StopTimeRow("T1", "70005", 29000), StopTimeRow("T2", "70005", 29350)>>}

\* trip_id_map: the scheduled trip_id of each live trip, NA when unmatched.
TripIdMap(df, gtfs_stops) ==
    LET sched == WithScheduledTt(
                     _derive_gtfs_branch_route_id(SortValues(gtfs_stops, "arrival_time")))
        lamp == _derive_lamp_branch_route_id(df)
    IN  [trip \in TripIds(df) |-> NearestScheduledTrip(RouteStart(lamp, trip), sched)]

InitRecalc ==
    /\ pc = "recalc_call"
    /\ \E n \in 1..MaxRecalcRows : \E codes \in CodeSeqs(n, 0, 17) : \E reversed \in BOOLEAN :
       \E feed \in RecalcFeeds :
        LET table == [i \in DOMAIN codes |-> RecalcEvent(codes[i])]
            df == AsTable(IF reversed THEN Reverse(table) ELSE table)
        IN  /\ pq_df = df
            /\ events = df
            /\ stop_times = StopTimesOf(feed, TripIds(df))
            /\ stop_times # <<>>
    /\ service_date = 20240207
    /\ lamp_df = <<>>
    /\ result = <<>>
    /\ disk = {}
    /\ disk_before = {}
    /\ clock = 0
    /\ args = NoArgs
    /\ futures = <<>>
    /\ calls = <<>>
    /\ gtfs_feed = NoFeed
    /\ queries = <<>>
    /\ requests = <<>>
    /\ instant = NoInstant
    /\ error = NoError
    /\ response = 0
    /\ todo = <<>>
    /\ log = {}
    /\ uploads = <<>>
    /\ bucket = {}

\* _recalculate_fields_from_gtfs(pq_df, service_date), with stop_times the
\* frame fetch_stop_times_from_gtfs returns; result keeps its trip_id_map.
Recalculate ==
    /\ pc = "recalc_call"
    /\ events' = _recalculate_fields_from_gtfs(events, stop_times)
    /\ result' = TripIdMap(events, stop_times)
    /\ pc' = "recalc_done"
    /\ UNCHANGED <<service_date, pq_df, lamp_df, stop_times, disk, disk_before, clock, args,
                   futures, calls, gtfs_feed, queries, requests, instant, error, response,
                   todo, log, uploads, bucket>>

NextRecalc == Recalculate

SpecRecalc == InitRecalc /\ [][NextRecalc]_vars

(***************************************************************************)
(* SpecFeedRace: two concurrent callers of ensure_gtfs_bundle_for_date or  *)
(* fetch_stop_times_from_gtfs that need the same feed.  gtfs_feed holds    *)
(* the remote copy and each caller's local copy ("absent", "partial" while *)
(* it is being built, "built"); calls is the history of the feed           *)
(* operations.                                                             *)
(***************************************************************************)
Callers == {1, 2}
CallerKinds == {"ensure", "fetch"}

\* Variant: ensure_gtfs_bundle_for_date returns without looking at the
\* answer of exists_remotely.
NothingToDoAlways(exists) == TRUE

\* ensure_gtfs_bundle_for_date: `if feed.exists_remotely(): return`.
NothingToDo(exists) == exists

\* feed.exists_remotely() on the shared store.
ExistsRemotely == gtfs_feed.remote # "absent"

\* The caller's position after download_or_build has returned.
AfterBuild(c) == IF args.kind[c] = "ensure" THEN "race_upload" ELSE "race_check"

InitFeedRace ==
    /\ \E kind \in [Callers -> CallerKinds] :
        /\ args = [kind |-> kind]
        /\ pc = [c \in Callers |-> IF kind[c] = "ensure" THEN "race_check" ELSE "race_build"]
    /\ \E remote \in {"absent", "built"} :
        gtfs_feed = [remote |-> remote,
                     local |-> [c \in Callers |-> "absent"],
                     exists_remotely |-> [c \in Callers |-> FALSE]]
    /\ calls = <<>>
    /\ service_date = 20240207
    /\ pq_df = <<>>
    /\ lamp_df = <<>>
    /\ events = <<>>
    /\ result = <<>>
    /\ stop_times = <<>>
    /\ disk = {}
    /\ disk_before = {}
    /\ clock = 0
    /\ futures = <<>>
    /\ queries = <<>>
    /\ requests = <<>>
    /\ instant = NoInstant
    /\ error = NoError
    /\ response = 0
    /\ todo = <<>>
    /\ log = {}
    /\ uploads = <<>>
    /\ bucket = {}

RaceUnchanged ==
    UNCHANGED <<service_date, pq_df, lamp_df, events, result, stop_times, disk, disk_before,
                clock, args, futures, queries, requests, instant, error, response, todo,
                log, uploads, bucket>>

\* feed.exists_remotely(): first in ensure_gtfs_bundle_for_date, which
\* returns when the feed is there, and after download_or_build in
\* fetch_stop_times_from_gtfs, which keeps the answer for later.
RaceExistsRemotely(c) ==
    /\ pc[c] = "race_check"
    /\ calls' = Append(calls, [caller |-> c, op |-> "exists_remotely",
                               value |-> ExistsRemotely])
    /\ gtfs_feed' = [gtfs_feed EXCEPT !.exists_remotely[c] = ExistsRemotely]
    /\ pc' = [pc EXCEPT ![c] =
                IF args.kind[c] = "fetch" THEN "race_query"
                ELSE IF NothingToDo(ExistsRemotely) THEN "race_returned"
                ELSE "race_build"]
    /\ RaceUnchanged

\* feed.download_or_build() when the feed is in the store: the caller's own
\* temporary directory receives the remote copy.
RaceDownload(c) ==
    /\ pc[c] = "race_build"
    /\ ExistsRemotely
    /\ gtfs_feed' = [gtfs_feed EXCEPT !.local[c] = gtfs_feed.remote]
    /\ calls' = Append(calls, [caller |-> c, op |-> "download", value |-> TRUE])
    /\ pc' = [pc EXCEPT ![c] = AfterBuild(c)]
    /\ RaceUnchanged

\* feed.download_or_build() when the feed is not in the store: the build in
\* the caller's own temporary directory begins.
RaceBuildStart(c) ==
    /\ pc[c] = "race_build"
    /\ ~ExistsRemotely
    /\ gtfs_feed' = [gtfs_feed EXCEPT !.local[c] = "partial"]
    /\ calls' = Append(calls, [caller |-> c, op |-> "build", value |-> TRUE])
    /\ pc' = [pc EXCEPT ![c] = "race_building"]
    /\ RaceUnchanged

\* The build completes and download_or_build returns.
RaceBuildEnd(c) ==
    /\ pc[c] = "race_building"
    /\ gtfs_feed' = [gtfs_feed EXCEPT !.local[c] = "built"]
    /\ pc' = [pc EXCEPT ![c] = AfterBuild(c)]
    /\ UNCHANGED calls
    /\ RaceUnchanged

\* download_or_build raises; both functions let the exception out.
RaceBuildRaises(c) ==
    /\ pc[c] = "race_building"
    /\ pc' = [pc EXCEPT ![c] = "race_raised"]
    /\ UNCHANGED <<gtfs_feed, calls>>
    /\ RaceUnchanged

\* fetch_stop_times_from_gtfs reads its batches from the local feed, then
\* uploads `if not exists_remotely`.
RaceQuery(c) ==
    /\ pc[c] = "race_query"
    /\ pc' = [pc EXCEPT ![c] =
                IF NeedsUpload(gtfs_feed.exists_remotely[c]) THEN "race_upload"
                ELSE "race_returned"]
    /\ UNCHANGED <<gtfs_feed, calls>>
    /\ RaceUnchanged

\* feed.upload_to_s3(): the store receives the caller's local copy as one
\* put, replacing what is there.
RaceUpload(c) ==
    /\ pc[c] = "race_upload"
    /\ gtfs_feed' = [gtfs_feed EXCEPT !.remote = gtfs_feed.local[c]]
    /\ calls' = Append(calls, [caller |-> c, op |-> "upload_to_s3", value |-> TRUE])
    /\ pc' = [pc EXCEPT ![c] = "race_returned"]
    /\ RaceUnchanged

\* upload_to_s3 raises: nothing is put.
RaceUploadRaises(c) ==
    /\ pc[c] = "race_upload"
    /\ pc' = [pc EXCEPT ![c] = "race_raised"]
    /\ UNCHANGED <<gtfs_feed, calls>>
    /\ RaceUnchanged

NextFeedRace ==
    \/ \E c \in Callers : RaceExistsRemotely(c)
    \/ \E c \in Callers : RaceDownload(c)
    \/ \E c \in Callers : RaceBuildStart(c)
    \/ \E c \in Callers : RaceBuildEnd(c)
    \/ \E c \in Callers : RaceBuildRaises(c)
    \/ \E c \in Callers : RaceQuery(c)
    \/ \E c \in Callers : RaceUpload(c)
    \/ \E c \in Callers : RaceUploadRaises(c)

SpecFeedRace == InitFeedRace /\ [][NextFeedRace]_vars

(***************************************************************************)
(* SpecYears: backfill_all_years, its year threads and the external unzip  *)
(* processes they start.  futures maps a year to its thread, todo holds    *)
(* the years the main thread has still to start, then to join, and log     *)
(* records which thread wrote which path.                                  *)
(***************************************************************************)
MaxYears == 2

\* ARCGIS_IDS.keys() in the order of the table, cut to MaxYears years.
YearOrder ==
    <<"2016", "2017", "2018", "2019", "2020", "2021", "2022", "2023", "2024", "2025">>
BackfillYears == SubSeq(YearOrder, 1, MaxYears)

\* The members of a year's archive and the month of the events of each.
ZipMembers == {"Q1.csv", "Q3.csv"}
MonthOfMember(member) == IF member = "Q1.csv" THEN "1" ELSE "7"

\* os.path.join(f"data/input/{year}", member)
MemberPath(year, member) == <<"data/input/", year, "/", member>>

\* The file to_disk writes for the events of a member of the year's archive
\* at one stop.
YearOutputPath(year, member) ==
    <<"data/output/Events/monthly-data/", "70001", "/Year=", year, "/Month=",
      MonthOfMember(member), "/events.csv.gz">>

\* Variant: join returns whether or not the thread has ended.
JoinReturnsAtOnce(state) == TRUE

\* Thread.join returns once the thread has ended, by return or by exception.
Terminated(state) == state \in {"finished", "died"}

NewThread == [state |-> "unstarted", pending |-> {}, files |-> <<>>]

InitYears ==
    /\ pc = "years_start"
    /\ todo = BackfillYears
    /\ futures = [year \in Range(BackfillYears) |-> NewThread]
    /\ disk = {}
    /\ log = {}
    /\ calls = <<>>
    /\ service_date = 0
    /\ pq_df = <<>>
    /\ lamp_df = <<>>
    /\ events = <<>>
    /\ result = <<>>
    /\ stop_times = <<>>
    /\ disk_before = {}
    /\ clock = 0
    /\ args = NoArgs
    /\ gtfs_feed = NoFeed
    /\ queries = <<>>
    /\ requests = <<>>
    /\ instant = NoInstant
    /\ error = NoError
    /\ response = 0
    /\ uploads = <<>>
    /\ bucket = {}

YearsUnchanged ==
    UNCHANGED <<service_date, pq_df, lamp_df, events, result, stop_times, disk_before, clock,
                args, gtfs_feed, queries, requests, instant, error, response, uploads,
                bucket>>

\* The file at `path` written by the thread of `year`.
WriteFile(path, rows, year) ==
    /\ disk' = {f \in disk : f.path # path} \cup {[path |-> path, rows |-> rows, gzip |-> Null]}
    /\ log' = log \cup {[path |-> path, thread |-> year]}

\* backfill_all_years: the next threading.Thread is made and started; after
\* the last one the joins begin.
StartYearThread ==
    /\ pc = "years_start"
    /\ futures' = [futures EXCEPT ![Head(todo)].state = "download"]
    /\ IF Tail(todo) = <<>>
       THEN pc' = "years_join" /\ todo' = BackfillYears
       ELSE pc' = pc /\ todo' = Tail(todo)
    /\ UNCHANGED <<disk, log, calls>>
    /\ YearsUnchanged

\* year_thread.join() for the next thread; backfill_all_years returns after
\* the last join.
JoinYearThread ==
    /\ pc = "years_join"
    /\ Terminated(futures[Head(todo)].state)
    /\ todo' = Tail(todo)
    /\ pc' = IF Tail(todo) = <<>> THEN "years_returned" ELSE pc
    /\ UNCHANGED <<futures, disk, log, calls>>
    /\ YearsUnchanged

\* single_year_thread: download_historic_data(year) writes the year's zip.
YearDownload(year) ==
    /\ futures[year].state = "download"
    /\ WriteFile(ZipPath(year, FALSE), "zip", year)
    /\ futures' = [futures EXCEPT ![year].state = "unzip"]
    /\ UNCHANGED <<pc, todo, calls>>
    /\ YearsUnchanged

\* download_historic_data raises ValueError for a status other than 200: the
\* exception ends the thread.
YearDownloadRaises(year) ==
    /\ futures[year].state = "download"
    /\ futures' = [futures EXCEPT ![year].state = "died"]
    /\ UNCHANGED <<pc, todo, disk, log, calls>>
    /\ YearsUnchanged

\* unzip_historic_data: ZipFile.extractall writes every member.
YearUnzip(year) ==
    /\ futures[year].state = "unzip"
    /\ disk' = {f \in disk : \A member \in ZipMembers : f.path # MemberPath(year, member)}
                 \cup {[path |-> MemberPath(year, member), rows |-> "csv", gzip |-> Null] :
                          member \in ZipMembers}
    /\ log' = log \cup {[path |-> MemberPath(year, member), thread |-> year] :
                           member \in ZipMembers}
    /\ futures' = [futures EXCEPT ![year].state = "list"]
    /\ UNCHANGED <<pc, todo, calls>>
    /\ YearsUnchanged

\* unzip_historic_data when ZipFile raises NotImplementedError:
\* subprocess.Popen(["unzip", ...]) starts the external command and the
\* function returns output_dir.
YearUnzipFallback(year) ==
    /\ futures[year].state = "unzip"
    /\ calls' = Append(calls, [popen |-> "unzip", output_dir |-> year])
    /\ futures' = [futures EXCEPT ![year].state = "list", ![year].pending = ZipMembers]
    /\ UNCHANGED <<pc, todo, disk, log>>
    /\ YearsUnchanged

\* The external unzip process writes one more member.
ExternalUnzipWrites(year) ==
    /\ \E member \in futures[year].pending :
        /\ WriteFile(MemberPath(year, member), "csv", year)
        /\ futures' = [futures EXCEPT ![year].pending = @ \ {member}]
    /\ UNCHANGED <<pc, todo, calls>>
    /\ YearsUnchanged

\* list_files_in_dir(input_dir): the members that are in the directory now,
\* in some order.
YearListFiles(year) ==
    /\ futures[year].state = "list"
    /\ LET present == {member \in ZipMembers :
                          \E f \in disk : f.path = MemberPath(year, member)}
       IN  \E files \in [1..Cardinality(present) -> present] :
            /\ Range(files) = present
            /\ futures' = [futures EXCEPT ![year].state = "process", ![year].files = files]
    /\ UNCHANGED <<pc, todo, disk, log, calls>>
    /\ YearsUnchanged

\* process_events(file, "data/output") for the next file of the listing.
YearProcessFile(year) ==
    /\ futures[year].state = "process"
    /\ futures[year].files # <<>>
    /\ WriteFile(YearOutputPath(year, Head(futures[year].files)), "events", year)
    /\ futures' = [futures EXCEPT ![year].files = Tail(@)]
    /\ UNCHANGED <<pc, todo, calls>>
    /\ YearsUnchanged

\* process_events raises: the exception ends the thread with the rest of its
\* files unprocessed.
YearProcessRaises(year) ==
    /\ futures[year].state = "process"
    /\ futures[year].files # <<>>
    /\ futures' = [futures EXCEPT ![year].state = "died"]
    /\ UNCHANGED <<pc, todo, disk, log, calls>>
    /\ YearsUnchanged

\* single_year_thread returns after the last file.
YearFinish(year) ==
    /\ futures[year].state = "process"
    /\ futures[year].files = <<>>
    /\ futures' = [futures EXCEPT ![year].state = "finished"]
    /\ UNCHANGED <<pc, todo, disk, log, calls>>
    /\ YearsUnchanged

NextYears ==
    \/ StartYearThread
    \/ JoinYearThread
    \/ \E year \in Range(BackfillYears) : YearDownload(year)
    \/ \E year \in Range(BackfillYears) : YearDownloadRaises(year)
    \/ \E year \in Range(BackfillYears) : YearUnzip(year)
    \/ \E year \in Range(BackfillYears) : YearUnzipFallback(year)
    \/ \E year \in Range(BackfillYears) : ExternalUnzipWrites(year)
    \/ \E year \in Range(BackfillYears) : YearListFiles(year)
    \/ \E year \in Range(BackfillYears) : YearProcessFile(year)
    \/ \E year \in Range(BackfillYears) : YearProcessRaises(year)
    \/ \E year \in Range(BackfillYears) : YearFinish(year)

SpecYears == InitYears /\ [][NextYears]_vars

(***************************************************************************)
(* Properties of _process_arrival_departure_times (SpecArrDep)             *)
(***************************************************************************)
ArrDepDone == pc = "arrdep_done"

Arrivals == {i \in DOMAIN events : events[i].event_type = "ARR"}
Departures == {i \in DOMAIN events : events[i].event_type = "DEP"}

\* The raw records with an arrival in the group of record r, at a
\* stop_sequence strictly below r's.
EarlierArrivalsIn(df, r) ==
    {j \in DOMAIN df :
        /\ ~IsNull(df[j].stop_timestamp)
        /\ SameBy(df[j], r)
        /\ df[j].stop_sequence < r.stop_sequence}

EarlierArrivals(r) == EarlierArrivalsIn(pq_df, r)

\* Every record of the table has an arrival and the records of each group
\* have pairwise different stop_sequences.
CleanTrips ==
    /\ \A j \in DOMAIN pq_df : ~IsNull(pq_df[j].stop_timestamp)
    /\ \A j, k \in DOMAIN pq_df :
          (j # k /\ SameBy(pq_df[j], pq_df[k]))
              => pq_df[j].stop_sequence # pq_df[k].stop_sequence

\* C1: every record with a move_timestamp yields exactly one DEPARTURE; it
\* keeps the record's own event_time (move_timestamp), stop_sequence, group
\* columns and benchmark fields, and its stop_id is that of an arrival with
\* the greatest stop_sequence strictly below its own in its group (NA when
\* the group has no such arrival), never that of an arrival at its own or a
\* later stop_sequence.  On trips with an arrival at every stop this is the
\* stop_id of the immediately preceding stop.
C1_DepartureTakesPreviousArrivalStop ==
    ArrDepDone =>
        /\ \A j \in DOMAIN pq_df :
              Cardinality({i \in Departures : events[i].row = j})
                  = IF IsNull(pq_df[j].move_timestamp) THEN 0 ELSE 1
        /\ \A i \in Departures :
              LET d == events[i]
                  r == pq_df[d.row]
                  prev == EarlierArrivals(r)
              IN  /\ d.event_time = r.move_timestamp[1]
                  /\ d.stop_sequence = r.stop_sequence
                  /\ SameBy(d, r)
                  /\ d.travel_time_seconds = r.travel_time_seconds
                  /\ d.scheduled_tt = r.scheduled_tt
                  /\ d.scheduled_headway = r.scheduled_headway
                  /\ prev = {} => d.stop_id = NA
                  /\ prev # {} =>
                        \E j \in prev :
                            /\ \A k \in prev :
                                  pq_df[k].stop_sequence <= pq_df[j].stop_sequence
                            /\ d.stop_id = pq_df[j].stop_id
                  /\ (CleanTrips /\ prev # {}) =>
                        \E j \in prev :
                            /\ d.stop_id = pq_df[j].stop_id
                            /\ ~\E k \in DOMAIN pq_df :
                                  /\ SameBy(pq_df[k], r)
                                  /\ pq_df[k].stop_sequence > pq_df[j].stop_sequence
                                  /\ pq_df[k].stop_sequence < r.stop_sequence

\* C1 witness: a 3-stop trip (stop_sequence 1, 2, 3, arrival and departure at
\* each, distinct stops at 1 and 2) was exploded; the departure recorded at
\* stop 3 carries the stop_id of stop 2 and the one recorded at stop 2 that
\* of stop 1.
C1_Witness ==
    /\ ArrDepDone
    /\ Len(pq_df) = 3
    /\ CleanTrips
    /\ \A j \in DOMAIN pq_df :
          /\ pq_df[j].vehicle_id = "O-001"
          /\ ~IsNull(pq_df[j].move_timestamp)
          /\ pq_df[j].stop_id # NA
    /\ \E j, k \in DOMAIN pq_df :
          /\ pq_df[j].stop_sequence = 1 /\ pq_df[k].stop_sequence = 2
          /\ pq_df[j].stop_id # pq_df[k].stop_id
          /\ \E i \in Departures :
                events[i].stop_sequence = 2 /\ events[i].stop_id = pq_df[j].stop_id
          /\ \E i \in Departures :
                events[i].stop_sequence = 3 /\ events[i].stop_id = pq_df[k].stop_id

\* The columns the test collates arrivals and departures on.
SameStopVisit(a, d) ==
    /\ SameBy(a, d)
    /\ a.stop_id = d.stop_id
    /\ a.stop_id # NA

\* C2 as stated: no ARRIVAL has a greater stop_sequence than a DEPARTURE of
\* the same group and stop_id.
C2_NoBacktracking ==
    ArrDepDone =>
        \A a \in Arrivals : \A d \in Departures :
            SameStopVisit(events[a], events[d])
                => events[a].stop_sequence <= events[d].stop_sequence

\* The arrivals of e's group that carry e's stop_id all have the same
\* stop_sequence: the trip reports that stop once.
StopVisitedOnce(e) ==
    \A a, b \in Arrivals :
        (SameStopVisit(events[a], e) /\ SameStopVisit(events[b], e))
            => events[a].stop_sequence = events[b].stop_sequence

\* C2 amended: every DEPARTURE with a stop_id has an ARRIVAL of the same
\* group and stop_id at a stop_sequence not greater than its own, and when
\* the trip reports that stop at one stop_sequence only, no ARRIVAL of the
\* same group and stop_id has a greater stop_sequence than the DEPARTURE.
C2_NoBacktrackingOnSimpleTrips ==
    ArrDepDone =>
        \A d \in Departures :
            events[d].stop_id # NA =>
                /\ \E a \in Arrivals :
                      /\ SameStopVisit(events[a], events[d])
                      /\ events[a].stop_sequence <= events[d].stop_sequence
                /\ StopVisitedOnce(events[d]) =>
                      \A a \in Arrivals :
                          SameStopVisit(events[a], events[d])
                              => events[a].stop_sequence <= events[d].stop_sequence

\* C2 witness: a DEPARTURE took the stop_id of an ARRIVAL of its group, at a
\* stop the trip reports once.
C2_Witness ==
    /\ ArrDepDone
    /\ \E d \in Departures : \E a \in Arrivals :
          /\ SameStopVisit(events[a], events[d])
          /\ StopVisitedOnce(events[d])
          /\ events[a].stop_sequence < events[d].stop_sequence

(***************************************************************************)
(* Properties of ingest_lamp_data and ingest_pq_file (Spec)                *)
(***************************************************************************)
NONREV_PREFIX == <<"N", "O", "N", "R", "E", "V", "-">>

HasNonRevPrefix(r) ==
    Len(r.trip_id) >= Len(NONREV_PREFIX)
        /\ SubSeq(r.trip_id, 1, Len(NONREV_PREFIX)) = NONREV_PREFIX

\* The run's service date, which every record of the day's file carries, is
\* before 2023-11-30.
BeforeCutoff == service_date < 20231130

\* The rows of df that stem from the raw record at position j.
RowsOf(df, j) == {k \in DOMAIN df : df[k].row = j}

LastEarlierArrivals(df, r) ==
    {j \in EarlierArrivalsIn(df, r) :
        \A k \in EarlierArrivalsIn(df, r) : df[k].stop_sequence <= df[j].stop_sequence}

EventsOf(j, type) == {i \in DOMAIN events : events[i].row = j /\ events[i].event_type = type}

NullsDropped ==
    pc \in {"ingest_gtfs", "ingest_headways", "ingest_sort", "dispatch", "uploading", "done"}

\* C4 as stated: no event has a null stop_id, a DEPARTURE without an earlier
\* arrival is dropped, every event of a record whose raw stop_id was null is
\* dropped, and no event with a stop_id is dropped.
C4_NullStopIdsDropped ==
    /\ NullsDropped => \A i \in DOMAIN events : events[i].stop_id # NA
    /\ pc = "ingest_gtfs" =>
          \A k \in DOMAIN lamp_df :
              LET r == lamp_df[k]
              IN  /\ EarlierArrivalsIn(lamp_df, r) = {} => EventsOf(r.row, "DEP") = {}
                  /\ r.stop_id = NA =>
                        EventsOf(r.row, "ARR") = {} /\ EventsOf(r.row, "DEP") = {}
                  /\ (~IsNull(r.stop_timestamp) /\ r.stop_id # NA)
                        => EventsOf(r.row, "ARR") # {}

\* C4 amended: no event has a null stop_id.  The ARRIVAL of a record is kept
\* exactly when the record has a stop_id.  The DEPARTURE of a record is
\* dropped when its group has no arrival at a strictly smaller stop_sequence
\* or when the last such arrival has no stop_id, and kept, with that
\* arrival's stop_id, when it has one, whatever the stop_id of the
\* departure's own record.
C4_NullStopIdFilter ==
    /\ NullsDropped => \A i \in DOMAIN events : events[i].stop_id # NA
    /\ pc = "ingest_gtfs" =>
          \A k \in DOMAIN lamp_df :
              LET r == lamp_df[k]
                  last == LastEarlierArrivals(lamp_df, r)
              IN  /\ Cardinality(EventsOf(r.row, "ARR"))
                        = IF ~IsNull(r.stop_timestamp) /\ r.stop_id # NA THEN 1 ELSE 0
                  /\ (IsNull(r.move_timestamp) \/ last = {}) => EventsOf(r.row, "DEP") = {}
                  /\ (\A j \in last : lamp_df[j].stop_id = NA) => EventsOf(r.row, "DEP") = {}
                  /\ (~IsNull(r.move_timestamp) /\ last # {}
                          /\ \A j \in last : lamp_df[j].stop_id # NA)
                        => /\ Cardinality(EventsOf(r.row, "DEP")) = 1
                           /\ \A i \in EventsOf(r.row, "DEP") :
                                 \E j \in last : events[i].stop_id = lamp_df[j].stop_id

\* C4 witness: after the null stop_id filter, the DEPARTURE of a record
\* without a stop_id is kept with the stop_id of the earlier arrival, the
\* ARRIVAL of that record is dropped, and the DEPARTURE of the trip's first
\* record is dropped.
C4_Witness ==
    /\ pc = "ingest_gtfs"
    /\ \E k, f \in DOMAIN lamp_df :
          /\ lamp_df[k].stop_id = NA
          /\ ~IsNull(lamp_df[k].stop_timestamp)
          /\ EventsOf(lamp_df[k].row, "ARR") = {}
          /\ EventsOf(lamp_df[k].row, "DEP") # {}
          /\ ~IsNull(lamp_df[f].move_timestamp)
          /\ EarlierArrivalsIn(lamp_df, lamp_df[f]) = {}
          /\ EventsOf(lamp_df[f].row, "DEP") = {}

\* C6 as stated: a failure to fetch the schedule does not abort the run.
C6_ScheduleFailureTolerated ==
    ~(pc = "raised" /\ error.type = "GtfsFeedError")

\* C7: ingest_lamp_data returns normally only when the upload of every stop
\* partition completed and its object is in the bucket; when any upload
\* failed, the run ends raising the upload's exception.
C7_DoneOnlyIfAllUploaded ==
    /\ pc = "done" =>
          /\ DOMAIN uploads = StopIds(events)
          /\ \A s \in StopIds(events) :
                /\ uploads[s] = "ok"
                /\ \E o \in bucket :
                      o.key = S3Key(s, service_date) /\ o.rows = StopEvents(events, s)
    /\ (pc \in {"done", "raised", "skipped"}
            /\ \E s \in DOMAIN uploads : uploads[s] = "failed")
          => pc = "raised" /\ error.type = "UploadError"

\* C7 witness: one partition was uploaded, another failed, and the run ended
\* raising.
C7_Witness ==
    /\ pc = "raised"
    /\ \E s, t \in DOMAIN uploads : uploads[s] = "ok" /\ uploads[t] = "failed"

DayBefore ==
    {<<<<2023, 11, 5>>, <<2023, 11, 4>>>>, <<<<2023, 11, 6>>, <<2023, 11, 5>>>>,
     <<<<2023, 12, 15>>, <<2023, 12, 14>>>>, <<<<2023, 12, 16>>, <<2023, 12, 15>>>>,
     <<<<2023, 12, 1>>, <<2023, 11, 30>>>>, <<<<2024, 1, 1>>, <<2023, 12, 31>>>>,
     <<<<2024, 3, 1>>, <<2024, 2, 29>>>>, <<<<2024, 3, 10>>, <<2024, 3, 9>>>>}

SecondOfDay(ts) == 3600 * ts.hour + 60 * ts.minute + ts.second

\* C5: for an instant from 00:00:00 to 02:59:59 local time service_date
\* returns the previous calendar date and from 03:00:00 to 23:59:59 the
\* instant's own date, for naive and timezone-aware instants alike, also on
\* the days of and after a clock change.
C5_ServiceDateBoundary ==
    pc = "date_done" =>
        IF SecondOfDay(instant) <= SecondOfDay([hour |-> 2, minute |-> 59, second |-> 59])
        THEN <<instant.date, result>> \in DayBefore
        ELSE result = instant.date

\* C5 witness: service_date of 2023-11-06 02:59:59 US/Eastern, the night
\* after the clocks fell back, is 2023-11-05.
C5_Witness ==
    /\ pc = "date_done"
    /\ instant = [date |-> <<2023, 11, 6>>, hour |-> 2, minute |-> 59, second |-> 59,
                  tzinfo |-> "US/Eastern"]
    /\ result = <<2023, 11, 5>>

(***************************************************************************)
(* Properties of _average_scheduled_headways (SpecHeadway)                 *)
(***************************************************************************)
\* C10 as stated: the output holds every input event exactly once, and an
\* event whose scheduled_headway was not null has one afterwards.
C10_RowCountPreserved ==
    pc = "headway_done" =>
        /\ Len(result) = Len(events)
        /\ \A j \in DOMAIN events : Cardinality(RowsOf(result, j)) = 1
        /\ \A i \in DOMAIN result :
              ~IsNull(events[result[i].row].scheduled_headway)
                  => ~IsNull(result[i].scheduled_headway)

(***************************************************************************)
(* Properties of backfill_all_in_index (SpecBackfill)                      *)
(***************************************************************************)
\* C9 as stated: a date whose fetch fails with a ValueError is skipped:
\* ingest_pq_file is not called for it, nothing is uploaded under it, and
\* the loop is not left at it, so that the dates that remain are taken.
C9_FailedDateSkipped ==
    /\ pc = "backfill_ingest" => service_date \notin log
    /\ \A o \in bucket : \A d \in log : o.key # S3Key(o.key.stop_id, d)
    /\ pc = "raised" => service_date \notin log

(***************************************************************************)
(* Properties of the branch derivation (SpecBranch)                        *)
(***************************************************************************)
TripRows(df, trip) == {i \in DOMAIN df : df[i].trip_id = trip}
TripStops(df, trip) == {df[i].stop_id : i \in TripRows(df, trip)}
TripRoutes(df, trip) == {df[i].route_id : i \in TripRows(df, trip)}

\* What the branch of a trip with the one route_id `route` and the stops
\* `stops` is to be.
ExpectedBranch(route, stops) ==
    IF route # "Red" THEN route
    ELSE IF stops \cap {"70085"} # {} /\ stops \cap {"70095"} = {} THEN "Red-A"
    ELSE IF stops \cap {"70095"} # {} /\ stops \cap {"70085"} = {} THEN "Red-B"
    ELSE "Red"

\* Trips that visit stops of both branches are left to the code.
BranchIsStated(route, stops) ==
    ~(route = "Red" /\ stops \cap {"70085"} # {} /\ stops \cap {"70095"} # {})

\* The frame `out` is `in` with a branch_route_id column that is the same on
\* every row of a trip and, for a trip with one route_id, the expected one.
BranchColumnOk(in, out) ==
    /\ Len(out) = Len(in)
    /\ \A i \in DOMAIN out :
          /\ \A c \in DOMAIN in[i] : out[i][c] = in[i][c]
          /\ \A j \in TripRows(out, out[i].trip_id) :
                out[j].branch_route_id = out[i].branch_route_id
          /\ \A route \in TripRoutes(in, in[i].trip_id) :
                (TripRoutes(in, in[i].trip_id) = {route}
                    /\ BranchIsStated(route, TripStops(in, in[i].trip_id)))
                  => out[i].branch_route_id
                        = ExpectedBranch(route, TripStops(in, in[i].trip_id))

\* C11: both derivations give every row of a trip the same branch_route_id:
\* Red-A for a Red trip with an Ashmont stop and no Braintree stop, Red-B for
\* one with a Braintree stop and no Ashmont stop, Red for a Red trip on the
\* trunk only, and the route_id itself for a trip of any other route; for
\* the same trip, route and stops the two derivations agree.
C11_BranchDerivation ==
    /\ pc \in {"branch_lamp_done", "branch_done"} => BranchColumnOk(events, lamp_df)
    /\ pc = "branch_done" =>
          /\ BranchColumnOk(stop_times, result)
          /\ \A i \in DOMAIN lamp_df : \A j \in DOMAIN result :
                (lamp_df[i].trip_id = result[j].trip_id
                    /\ Cardinality(TripRoutes(events, lamp_df[i].trip_id)) = 1)
                  => lamp_df[i].branch_route_id = result[j].branch_route_id

\* C11 witness: both derivations ran on a Red trip that visits a trunk stop
\* and an Ashmont stop and got Red-A on each of its rows, next to a trip of
\* another route that kept its route_id.
C11_Witness ==
    /\ pc = "branch_done"
    /\ \E i, j, k \in DOMAIN lamp_df :
          /\ lamp_df[i].trip_id = lamp_df[j].trip_id
          /\ lamp_df[i].route_id = "Red" /\ lamp_df[j].route_id = "Red"
          /\ lamp_df[i].stop_id = "70061" /\ lamp_df[j].stop_id = "70085"
          /\ lamp_df[i].branch_route_id = "Red-A"
          /\ lamp_df[k].route_id = "Orange" /\ lamp_df[k].branch_route_id = "Orange"
    /\ \E i \in DOMAIN result :
          result[i].stop_id = "70061" /\ result[i].branch_route_id = "Red-A"

(***************************************************************************)
(* Properties of the partitioned upload (Spec)                             *)
(***************************************************************************)
\* The year, month and day of the key of a run, as they are to be written.
ExpectedKey(stop_id) ==
    IF service_date = 20231129
    THEN [stop_id |-> stop_id, Year |-> <<2, 0, 2, 3>>, Month |-> <<1, 1>>, Day |-> <<2, 9>>]
    ELSE IF service_date = 20231130
    THEN [stop_id |-> stop_id, Year |-> <<2, 0, 2, 3>>, Month |-> <<1, 1>>, Day |-> <<3, 0>>]
    ELSE [stop_id |-> stop_id, Year |-> <<2, 0, 2, 4>>, Month |-> <<2>>, Day |-> <<7>>]

Holders(e) == {o \in bucket : \E k \in DOMAIN o.rows : o.rows[k] = e}

\* C12: no two objects of a run share a key and no key is written twice;
\* when ingest_lamp_data has returned, every event of the finalized table is
\* in exactly one object, whose key is that of the event's stop_id and the
\* run's service date (month and day without padding) and whose rows are all
\* the events of that stop_id, and there is one object per stop_id.
C12_OneObjectPerStop ==
    /\ \A o1, o2 \in bucket : o1.key = o2.key => o1 = o2
    /\ \A o \in bucket : o.puts = 1
    /\ pc = "done" =>
          /\ \A i \in DOMAIN events :
                /\ Cardinality(Holders(events[i])) = 1
                /\ \A o \in Holders(events[i]) :
                      /\ o.key = ExpectedKey(events[i].stop_id)
                      /\ o.rows = SelectSeq(events,
                                            LAMBDA e : e.stop_id = events[i].stop_id)
          /\ Cardinality(bucket) = Cardinality({events[i].stop_id : i \in DOMAIN events})

\* C12 witness: the run of 2024-02-07 returned with the events of two stops
\* in two objects, one of them holding several events.
C12_Witness ==
    /\ pc = "done"
    /\ service_date = 20240207
    /\ Cardinality(bucket) = 2
    /\ \E o \in bucket : Len(o.rows) >= 2

(***************************************************************************)
(* Properties of to_disk and to_disk_bus (SpecToDisk)                      *)
(***************************************************************************)

\* The state after the first call of the write.
WrittenOnce == pc = "to_disk_again"

\* The key the property names for an event: (month, stop_id), for the bus
\* write (month, stop_id, direction_id, route_id).
KeyOf(e) ==
    IF args.bus THEN <<MonthOf(e.service_date), e.stop_id, e.direction_id, e.route_id>>
    ELSE <<MonthOf(e.service_date), e.stop_id>>

\* The input events with the key of e, in input order.
EventsWithKey(e) == SelectSeq(events, LAMBDA x : KeyOf(x) = KeyOf(e))

\* The files that hold event e.
FilesHolding(e) == {f \in disk : \E k \in DOMAIN f.rows : f.rows[k] = e}

\* The path names the key of e.
PathNames(path, e) ==
    /\ path.Year = Digits(e.service_date[1])
    /\ path.Month = Digits(e.service_date[2])
    /\ path.name = IF args.bus THEN <<e.route_id, "-", e.direction_id, "-", e.stop_id>>
                   ELSE <<e.stop_id>>
    /\ path.dir = IF args.bus THEN "monthly-bus-data" ELSE "monthly-data"

\* C13: after to_disk (to_disk_bus) every input event is in exactly one file;
\* that file is the only one at the path of the event's key and holds exactly
\* the input events with that key, so nothing of a file that was there before
\* is left in it.
C13_EachEventInOneFile ==
    WrittenOnce =>
        \A i \in DOMAIN events :
            /\ Cardinality(FilesHolding(events[i])) = 1
            /\ \A f \in FilesHolding(events[i]) :
                /\ f.rows = EventsWithKey(events[i])
                /\ PathNames(f.path, events[i])
                /\ \A g \in disk : g.path = f.path => g = f

\* The part of C13 that holds: an event whose key columns are all present is
\* in exactly one file as C13 says, and a file the call does not write is
\* left as it was.
C13_KeyedEventInOneFile ==
    WrittenOnce =>
        /\ \A i \in DOMAIN events :
            IF KeyIsNull(events[i], args.bus) THEN FilesHolding(events[i]) = {}
            ELSE /\ Cardinality(FilesHolding(events[i])) = 1
                 /\ \A f \in FilesHolding(events[i]) :
                     /\ f.rows = EventsWithKey(events[i])
                     /\ PathNames(f.path, events[i])
                     /\ \A g \in disk : g.path = f.path => g = f
        /\ \A f \in disk :
            \/ \E i \in DOMAIN events : f \in FilesHolding(events[i])
            \/ f \in disk_before

\* Two events of one stop in different months are written over a file of an
\* earlier run.
C13_Witness ==
    /\ WrittenOnce
    /\ disk_before = OldFiles
    /\ \E i, j \in DOMAIN events :
        /\ events[i].stop_id = events[j].stop_id
        /\ ~KeyIsNull(events[i], args.bus)
        /\ ~KeyIsNull(events[j], args.bus)
        /\ KeyOf(events[i]) # KeyOf(events[j])
        /\ \E f \in disk : f.path = DiskPath(OldEvent) /\ f.rows # <<OldEvent>>

\* The state after the second call of the write on the same events.
WrittenTwice == pc = "to_disk_done"

\* C14: the second run of to_disk (to_disk_bus) on the same events, at a
\* later wall-clock time, leaves every file as the first run wrote it: the
\* same paths, the same rows and the same gzip header.
C14_RerunWritesSameFiles ==
    WrittenTwice =>
        /\ disk = disk_before
        /\ disk = WriteAll(disk, WrittenFiles(events, args.bus, args.nozip, 0))

\* A compressed write of events with two keys has run twice, at clock 1 and
\* at clock 2.
C14_Witness ==
    /\ WrittenTwice
    /\ ~args.nozip
    /\ clock = 3
    /\ \E i, j \in DOMAIN events :
        /\ FilesHolding(events[i]) # {}
        /\ FilesHolding(events[j]) # {}
        /\ FilesHolding(events[i]) # FilesHolding(events[j])

(***************************************************************************)
(* Properties of make_parallel (SpecParallel)                              *)
(***************************************************************************)

\* The values single_func returns for the items from position i on, in order.
RECURSIVE ExpectedValues(_)
ExpectedValues(i) ==
    IF i > Len(args.iterable) THEN <<>>
    ELSE [k \in 1..args.iterable[i] |-> <<args.iterable[i], k, args.extra>>]
         \o ExpectedValues(i + 1)

\* C15: single_func is never called twice for an item; once every call has
\* ended it has been called exactly once per item, with that item and the
\* extra arguments as given; the list returned holds the values of every call,
\* flat; with an empty iterable nothing is called and the list is empty.
C15_OneCallPerItem ==
    /\ \A i \in DOMAIN calls : Len(calls[i]) <= 1
    /\ pc \in {"parallel_pool", "parallel_done", "parallel_raised"} =>
        Len(calls) = Len(args.iterable)
    /\ pc \in {"parallel_done", "parallel_raised"} =>
        \A i \in DOMAIN args.iterable :
            calls[i] = <<[item |-> args.iterable[i], extra |-> args.extra]>>
    /\ pc = "parallel_done" => result = ExpectedValues(1)
    /\ (pc = "parallel_done" /\ args.iterable = <<>>) => result = <<>> /\ calls = <<>>
    /\ args.iterable = <<>> => pc # "parallel_raised"

\* Three items whose calls return no value, one value and two values.
C15_Witness ==
    /\ pc = "parallel_done"
    /\ args.iterable = <<0, 1, 2>>
    /\ Len(result) = 3

\* C16: at most THREAD_COUNT calls of single_func run at a time.
C16_AtMostThreadCountInFlight ==
    Cardinality(InFlight) <= THREAD_COUNT

\* More items than threads: THREAD_COUNT calls run and one is still queued.
C16_Witness ==
    /\ pc = "parallel_pool"
    /\ Cardinality(InFlight) = THREAD_COUNT
    /\ \E i \in DOMAIN futures : futures[i].state = "queued"

(***************************************************************************)
(* Properties of fetch_stop_times_from_gtfs (SpecGtfs)                     *)
(***************************************************************************)

\* ceil(n / 900): the least k with 900 k >= n.
CeilOf900(n) == CHOOSE k \in 0..n : 900 * k >= n /\ (k = 0 \/ 900 * (k - 1) < n)

\* The query loop has ended.
QueriesDone == pc \in {"gtfs_upload", "gtfs_concat", "gtfs_done"}

\* C17: for n trip ids exactly ceil(n / 900) queries are issued, each for at
\* least one and at most 900 ids; the batches, in order, are the list of trip
\* ids cut into consecutive slices; the table returned is the batches' results
\* in batch order.
C17_BatchedQueries ==
    LET n == Len(args.trip_ids)
        k == gtfs_feed.rows_per_trip
    IN  /\ Len(queries) <= CeilOf900(n)
        /\ QueriesDone => Len(queries) = CeilOf900(n)
        /\ \A q \in DOMAIN queries : Len(queries[q].ids) \in 1..900
        /\ LET asked == Flatten([q \in DOMAIN queries |-> queries[q].ids])
           IN  /\ asked = SubSeq(args.trip_ids, 1, Len(asked))
               /\ QueriesDone => asked = args.trip_ids
        /\ pc = "gtfs_done" =>
            /\ Len(result) = n * k
            /\ \A p \in DOMAIN result :
                result[p] = [trip_id |-> args.trip_ids[((p - 1) \div k) + 1],
                             stop_sequence |-> ((p - 1) % k) + 1]

\* 1801 trip ids, two stop times each, fetched in three queries.
C17_Witness ==
    /\ pc = "gtfs_done"
    /\ Len(args.trip_ids) = 1801
    /\ Len(queries) = 3
    /\ Len(queries[3].ids) = 1
    /\ gtfs_feed.rows_per_trip = 2

\* C18: the feed is uploaded at most once, never when it is in the bucket,
\* and once when it is not and the queries are done; the upload comes after
\* download_or_build and after every query; a failure of download_or_build
\* is raised before any query or upload; a failure of the upload is raised
\* and nothing is returned.
C18_UploadOnceWhenMissing ==
    /\ gtfs_feed.uploads <= 1
    /\ gtfs_feed.exists_remotely => gtfs_feed.uploads = 0
    /\ (pc \in {"gtfs_concat", "gtfs_done"} /\ ~gtfs_feed.exists_remotely) => gtfs_feed.uploads = 1
    /\ gtfs_feed.uploads = 1 =>
        /\ gtfs_feed.built
        /\ Len(queries) = CeilOf900(Len(args.trip_ids))
    /\ queries # <<>> => gtfs_feed.built
    /\ error.type = "GtfsFeedError" =>
        pc = "gtfs_raised" /\ queries = <<>> /\ gtfs_feed.uploads = 0 /\ result = <<>>
    /\ error.type = "UploadError" =>
        pc = "gtfs_raised" /\ gtfs_feed.uploads = 0 /\ result = <<>>
    /\ pc = "gtfs_done" => error = NoError

\* A feed that was not in the bucket has been uploaded after two queries.
C18_Witness ==
    /\ pc = "gtfs_done"
    /\ ~gtfs_feed.exists_remotely
    /\ gtfs_feed.uploads = 1
    /\ Len(queries) = 2

(***************************************************************************)
(* Properties of the stop alias replacement (SpecAlias)                    *)
(***************************************************************************)

\* The alias stop ids of the model's input.
AliasIds == {"Alewife-01", "Forest Hills-01"}

\* The canonical id of a raw stop id.
CanonicalStopId(stop_id) ==
    CASE stop_id = "Alewife-01" -> "70061"
      [] stop_id = "Forest Hills-01" -> "70001"
      [] OTHER -> stop_id

\* ingest_pq_file has returned its events.
IngestReturned == pc = "dispatch"

\* C19: no event returned by ingest_pq_file has an alias as its stop_id; an
\* arrival has the canonical id of its record's stop, a departure the
\* canonical id of the stop of an earlier record of its trip.
C19_NoAliasInOutput ==
    IngestReturned =>
        \A i \in DOMAIN events :
            /\ events[i].stop_id \notin AliasIds
            /\ events[i].event_type = "ARR" =>
                events[i].stop_id = CanonicalStopId(pq_df[events[i].row].stop_id)
            /\ events[i].event_type = "DEP" =>
                \E r \in DOMAIN pq_df :
                    /\ pq_df[r].stop_sequence < pq_df[events[i].row].stop_sequence
                    /\ events[i].stop_id = CanonicalStopId(pq_df[r].stop_id)

\* The part of C19 that holds: the aliases of STOP_ID_NUMERIC_MAP.
C19_MappedAliasReplaced ==
    IngestReturned =>
        \A i \in DOMAIN events :
            /\ events[i].stop_id \notin DOMAIN STOP_ID_NUMERIC_MAP
            /\ (events[i].event_type = "ARR" /\ pq_df[events[i].row].stop_id # "Alewife-01") =>
                events[i].stop_id = CanonicalStopId(pq_df[events[i].row].stop_id)

\* A departure has taken the canonical id of the Forest Hills alias.
C19_Witness ==
    /\ IngestReturned
    /\ \E i \in DOMAIN events :
        /\ events[i].event_type = "DEP"
        /\ events[i].stop_id = "70001"
        /\ \E r \in DOMAIN pq_df : pq_df[r].stop_id = "Forest Hills-01"

(***************************************************************************)
(* Properties of download_historic_data and download_bus_data              *)
(* (SpecDownload)                                                          *)
(***************************************************************************)

\* The years of the id table of the function called.
SupportedYears ==
    IF args.bus THEN {"2020", "2021", "2022", "2023", "2024", "2025"}
    ELSE {"2016", "2017", "2018", "2019", "2020", "2021", "2022", "2023", "2024", "2025"}

\* No file has been written: the disk is as it was before the call.
NothingWritten == disk \in {{}, OldZips} /\ disk_before = {}

\* C20: with a year outside the id table the call ends in a ValueError that
\* names the year and the supported years, without a request and without a
\* file written; an answer with a status other than 200 ends it in a
\* ValueError without a file written.
C20_FailFastDownload ==
    /\ args.year \notin SupportedYears =>
        /\ requests = <<>>
        /\ NothingWritten
        /\ pc # "download_done"
        /\ pc = "download_raised" =>
            /\ error.type = "ValueError"
            /\ error.year = args.year
            /\ error.supported = SupportedYears
    /\ response \notin {0, 200} =>
        /\ pc = "download_raised"
        /\ error.type = "ValueError"
        /\ error.status_code = response
        /\ NothingWritten
    /\ pc = "download_done" => response = 200 /\ Len(requests) = 1

\* download_bus_data("2018"), a year of the rapid transit table only, has
\* raised.
C20_Witness ==
    /\ pc = "download_raised"
    /\ args.bus
    /\ args.year = "2018"
    /\ disk = OldZips
    /\ error.type = "ValueError"

(***************************************************************************)
(* Properties of process_events (SpecProcess)                              *)
(***************************************************************************)

\* add_gtfs_headways has failed.
EnrichmentFailed == error # NoError

\* C21: when add_gtfs_headways fails, process_events does not raise; when it
\* has ended, to_disk has been called exactly once, with the events as read,
\* without the schedule-derived columns.
C21_EnrichmentFailureRecovered ==
    EnrichmentFailed =>
        /\ pc # "process_raised"
        /\ pc = "process_done" => calls = <<[df |-> pq_df, nozip |-> args.nozip]>>
        /\ pc # "process_done" => calls = <<>>

\* The part of C21 that holds: the IndexError.
C21_IndexErrorRecovered ==
    error = [type |-> "IndexError"] =>
        /\ pc # "process_raised"
        /\ pc = "process_done" => calls = <<[df |-> pq_df, nozip |-> args.nozip]>>
        /\ pc # "process_done" => calls = <<>>

\* Two events have been written after an IndexError of add_gtfs_headways.
C21_Witness ==
    /\ pc = "process_done"
    /\ error = [type |-> "IndexError"]
    /\ Len(events) = 2
    /\ disk # disk_before

(***************************************************************************)
(* Properties of the order of the events ingest_pq_file returns (Spec)     *)
(***************************************************************************)

\* C22: the events returned by ingest_pq_file are in non-decreasing order of
\* event_time.
C22_SortedByEventTime ==
    pc \in {"dispatch", "uploading", "done"} =>
        \A i, j \in DOMAIN events : i < j => events[i].event_time <= events[j].event_time

\* Two events are returned in the opposite order of their records: the later
\* record has the earlier event.
C22_Witness ==
    /\ pc = "dispatch"
    /\ \E i, j \in DOMAIN events :
        /\ i < j
        /\ events[i].event_time < events[j].event_time
        /\ events[i].row > events[j].row

(***************************************************************************)
(* Properties of _recalculate_fields_from_gtfs (SpecRecalc)                *)
(***************************************************************************)
Recalculated == pc = "recalc_done"

\* The input events and the schedule with their branch_route_id.
LiveRows == _derive_lamp_branch_route_id(pq_df)
ScheduleRows == _derive_gtfs_branch_route_id(stop_times)

\* The events of a live trip with the least event_time.
EarliestEvents(trip) ==
    {i \in DOMAIN LiveRows :
        /\ LiveRows[i].trip_id = trip
        /\ \A j \in DOMAIN LiveRows :
              LiveRows[j].trip_id = trip => LiveRows[i].event_time <= LiveRows[j].event_time}

\* The scheduled stop times with the match key of live row i.
Candidates(i) ==
    {j \in DOMAIN ScheduleRows :
        /\ ScheduleRows[j].route_id = LiveRows[i].route_id
        /\ ScheduleRows[j].direction_id = LiveRows[i].direction_id
        /\ ScheduleRows[j].stop_id = LiveRows[i].stop_id
        /\ ScheduleRows[j].branch_route_id = LiveRows[i].branch_route_id}

Distance(i, j) ==
    IF ScheduleRows[j].arrival_time >= LiveRows[i].event_time
    THEN ScheduleRows[j].arrival_time - LiveRows[i].event_time
    ELSE LiveRows[i].event_time - ScheduleRows[j].arrival_time

\* The live trip's scheduled trip is that of a nearest candidate of its
\* start, and NA exactly when the start has no candidate.
MatchedToNearest(trip) ==
    \E i \in EarliestEvents(trip) :
        IF Candidates(i) = {} THEN result[trip] = NA
        ELSE \E j \in Candidates(i) :
                /\ result[trip] = ScheduleRows[j].trip_id
                /\ \A k \in Candidates(i) : Distance(i, j) <= Distance(i, k)

\* The stop times of scheduled trip m, and those at one stop.
StopTimesOfTrip(m) == {j \in DOMAIN stop_times : stop_times[j].trip_id = m}
StopTimesAt(m, stop) == {j \in StopTimesOfTrip(m) : stop_times[j].stop_id = stop}

\* Output row o carries the offset of a stop time of trip m at o's stop from
\* m's first arrival (scheduled_tt is held in half seconds).
HasOffsetOf(o, m) ==
    \E j \in StopTimesAt(m, o.stop_id) :
        \E first \in StopTimesOfTrip(m) :
            /\ \A k \in StopTimesOfTrip(m) :
                  stop_times[first].arrival_time <= stop_times[k].arrival_time
            /\ o.scheduled_tt
                  = Some(2 * (stop_times[j].arrival_time - stop_times[first].arrival_time))

\* C23 as stated: each live trip is matched to the scheduled trip of the
\* nearest stop time sharing the start's (route_id, direction_id, stop_id,
\* branch_route_id), unmatched exactly when there is none, and every event
\* of a matched trip gets the matched trip's offset at the event's stop.
C23_EveryEventOfMatchedTrip ==
    Recalculated =>
        /\ DOMAIN result = TripIds(pq_df)
        /\ \A trip \in TripIds(pq_df) : MatchedToNearest(trip)
        /\ \A k \in DOMAIN events :
              result[events[k].trip_id] # NA
                  => HasOffsetOf(events[k], result[events[k].trip_id])

\* C23: each live trip is matched to the scheduled trip of the nearest stop
\* time sharing the start's (route_id, direction_id, stop_id,
\* branch_route_id), unmatched exactly when there is none, and every event
\* of a matched trip at a stop the matched scheduled trip calls at gets that
\* trip's offset at the stop.
C23_EventAtServedStop ==
    Recalculated =>
        /\ DOMAIN result = TripIds(pq_df)
        /\ \A trip \in TripIds(pq_df) : MatchedToNearest(trip)
        /\ \A k \in DOMAIN events :
              /\ result[events[k].trip_id] # NA
              /\ StopTimesAt(result[events[k].trip_id], events[k].stop_id) # {}
              => HasOffsetOf(events[k], result[events[k].trip_id])

\* A live trip matched to a scheduled trip with another id, because that
\* trip's stop time is nearer to the start, next to an unmatched trip.
C23_Witness ==
    /\ Recalculated
    /\ \E trip \in TripIds(pq_df) : result[trip] \notin {NA, trip}
    /\ \E trip \in TripIds(pq_df) : result[trip] = NA
    /\ \E k \in DOMAIN events :
          /\ result[events[k].trip_id] # NA
          /\ events[k].scheduled_tt # Null
          /\ events[k].scheduled_tt # Some(0)
          /\ StopTimesAt(result[events[k].trip_id], events[k].stop_id) # {}

\* The output rows made from input event i.
RowsOfEvent(i) == {k \in DOMAIN events : events[k].row = pq_df[i].row}

\* C24: _recalculate_fields_from_gtfs returns exactly one row per input
\* event, none dropped and none duplicated, and every scheduled_tt that is
\* not null is non-negative.
C24_OneRowPerEvent ==
    Recalculated =>
        /\ Len(events) = Len(pq_df)
        /\ \A i \in DOMAIN pq_df : Cardinality(RowsOfEvent(i)) = 1
        /\ \A k \in DOMAIN events :
              events[k].scheduled_tt # Null => events[k].scheduled_tt[1] >= 0

\* The scheduled_tt of schedule row j: its arrival less its trip's first.
ScheduledTtOf(j) ==
    LET m == stop_times[j].trip_id
        first == CHOOSE f \in StopTimesOfTrip(m) :
                    \A k \in StopTimesOfTrip(m) :
                        stop_times[f].arrival_time <= stop_times[k].arrival_time
    IN  stop_times[j].arrival_time - stop_times[first].arrival_time

\* The schedule rows with the (route_id, direction_id, stop_id) of output row
\* o in o's 30-minute bucket.
BucketRows(o) ==
    {j \in DOMAIN stop_times :
        /\ stop_times[j].route_id = o.route_id
        /\ stop_times[j].direction_id = o.direction_id
        /\ stop_times[j].stop_id = o.stop_id
        /\ \E b \in 0..47 :
              /\ 1800 * b <= stop_times[j].arrival_time
              /\ stop_times[j].arrival_time < 1800 * (b + 1)
              /\ 1800 * b <= o.event_time
              /\ o.event_time < 1800 * (b + 1)}

\* Twice v is the median of the scheduled_tt of the rows `rows`: as many
\* rows are at or below v's half as at or above it, and v is the sum of the
\* two middle values (the same value twice for an odd number of rows).
IsTwiceMedian(v, rows) ==
    \E lo \in rows : \E hi \in rows :
        /\ ScheduledTtOf(lo) <= ScheduledTtOf(hi)
        /\ v = ScheduledTtOf(lo) + ScheduledTtOf(hi)
        /\ Cardinality({j \in rows : ScheduledTtOf(j) < ScheduledTtOf(lo)}) * 2
              < Cardinality(rows) + (IF lo = hi THEN 1 ELSE 0)
        /\ Cardinality({j \in rows : ScheduledTtOf(j) > ScheduledTtOf(hi)}) * 2
              < Cardinality(rows) + (IF lo = hi THEN 1 ELSE 0)
        /\ Cardinality({j \in rows : ScheduledTtOf(j) <= ScheduledTtOf(lo)}) * 2
              >= Cardinality(rows)
        /\ Cardinality({j \in rows : ScheduledTtOf(j) >= ScheduledTtOf(hi)}) * 2
              >= Cardinality(rows)
        /\ \A j \in rows :
              ScheduledTtOf(j) <= ScheduledTtOf(lo) \/ ScheduledTtOf(j) >= ScheduledTtOf(hi)

\* Output row o got no scheduled_tt from the trip matching.
LacksMatchedTt(o) ==
    \/ result[o.trip_id] = NA
    \/ StopTimesAt(result[o.trip_id], o.stop_id) = {}

BothBranchTrips(df) ==
    {trip \in TripIds(df) :
        /\ \E i \in DOMAIN df : df[i].trip_id = trip /\ df[i].route_id = "Red"
        /\ \E i \in DOMAIN df :
              df[i].trip_id = trip /\ df[i].stop_id \in RED_LINE_ASHMONT_STOPS
        /\ \E i \in DOMAIN df :
              df[i].trip_id = trip /\ df[i].stop_id \in RED_LINE_BRAINTREE_STOPS}

\* C26: when a Red trip calls at an Ashmont-only and at a Braintree-only
\* stop, the branch derivation raises an error and assigns the trip no
\* branch_route_id.
C26_BothBranchesRaise ==
    /\ pc # "branch_call" /\ BothBranchTrips(events) # {}
          => error # NoError /\ lamp_df = <<>>
    /\ pc \notin {"branch_call", "branch_lamp_done"} /\ BothBranchTrips(stop_times) # {}
          => error # NoError /\ result = <<>>

(***************************************************************************)
(* Two callers of the same feed (SpecFeedRace)                             *)
(***************************************************************************)
\* The positions in the history of caller c's operations of one kind.
OpsOf(c, op) == {i \in DOMAIN calls : calls[i].caller = c /\ calls[i].op = op}

BothReturned == \A c \in Callers : pc[c] = "race_returned"

\* C27: for every interleaving of two callers of the same feed, a caller
\* uploads only after it has itself seen the feed missing from the store,
\* each caller builds and uploads at most once (a double build is the worst
\* case), the store holds nothing or a completely built feed, and when both
\* callers have returned the feed is in the store.
C27_RaceIsBenign ==
    /\ \A c \in Callers : \A i \in OpsOf(c, "upload_to_s3") :
          \E j \in OpsOf(c, "exists_remotely") : j < i /\ ~calls[j].value
    /\ \A c \in Callers :
          /\ Cardinality(OpsOf(c, "build")) <= 1
          /\ Cardinality(OpsOf(c, "upload_to_s3")) <= 1
    /\ gtfs_feed.remote \in {"absent", "built"}
    /\ BothReturned => gtfs_feed.remote = "built"

\* The race at its worst: an ensure caller and a fetch caller both built
\* the feed and both uploaded it, the second upload after the first.
C27_Witness ==
    /\ BothReturned
    /\ args.kind[1] # args.kind[2]
    /\ \A c \in Callers :
          OpsOf(c, "build") # {} /\ OpsOf(c, "upload_to_s3") # {}

(***************************************************************************)
(* backfill_all_years and its year threads (SpecYears)                     *)
(***************************************************************************)
YearThreads == Range(BackfillYears)

\* No path has been written by two threads.
NoSharedPath == \A w1 \in log : \A w2 \in log : w1.path = w2.path => w1.thread = w2.thread

\* A step in which a thread dies leaves the other threads as they are.
DeathIsLocal ==
    \A year \in YearThreads :
        futures[year].state # "died" /\ futures'[year].state = "died"
            => \A other \in YearThreads \ {year} : futures'[other] = futures[other]

C29_ExtractedWhenUnzipReturns ==
    \A year \in YearThreads :
        futures[year].state = "list"
            => \A member \in ZipMembers : \E f \in disk : f.path = MemberPath(year, member)

(***************************************************************************)
(* A failing call in make_parallel (SpecParallel)                          *)
(***************************************************************************)
\* The calls that raised.
RaisedCalls == {i \in DOMAIN futures : futures[i].state = "raised"}

\* C30: when parallel_func raises, every item of the iterable has been
\* submitted and its call has run to its end, the calls that did not fail
\* have returned, and the exception raised is that of the first failed call
\* in submission order; when no call fails the values come in submission
\* order.
C30_AllCallsEndBeforeRaise ==
    /\ pc = "parallel_raised" =>
          /\ DOMAIN futures = DOMAIN args.iterable
          /\ \A i \in DOMAIN args.iterable :
                /\ calls[i] = <<[item |-> args.iterable[i], extra |-> args.extra]>>
                /\ futures[i].state \in {"returned", "raised"}
                /\ futures[i].state = "returned"
                      => futures[i].value = single_func(args.iterable[i], args.extra)
          /\ error.type = "CallError"
          /\ error.call \in RaisedCalls
          /\ \A i \in RaisedCalls : error.call <= i
    /\ pc = "parallel_done" => RaisedCalls = {} /\ result = ExpectedValues(1)

\* The second call and a later one failed; the first call and the last one
\* returned their values all the same.
C30_Witness ==
    /\ pc = "parallel_raised"
    /\ Len(args.iterable) >= 4
    /\ error.call = 2
    /\ Cardinality(RaisedCalls) = 2
    /\ futures[1].state = "returned"
    /\ futures[Len(futures)].state = "returned"
    /\ futures[Len(futures)].value # <<>>

\* After a run of ingest_lamp_data that ended with an upload error, every
\* stop partition's upload has ended and the partitions that did not fail are
\* in the bucket.
OtherPartitionsWritten ==
    (pc = "raised" /\ error.type = "UploadError") =>
        /\ DOMAIN uploads = StopIds(events)
        /\ \A s \in StopIds(events) :
              /\ uploads[s] \in {"ok", "failed"}
              /\ uploads[s] = "ok"
                    => \E o \in bucket :
                          o.key = S3Key(s, service_date) /\ o.rows = StopEvents(events, s)

====
